---- MODULE Spec2Model ----
(***************************************************************************)
(* Model of the tsp pipeline execution engine of TSDuck:                   *)
(*   - ts::tsp::PluginExecutor  (src/src/tstools/tspPluginExecutor.cpp):   *)
(*     the per-stage window (_pkt_first, _pkt_cnt) over the shared packet  *)
(*     buffer, passPackets / waitWork / setAbort / restart;                *)
(*   - ts::tsp::InputExecutor   (src/src/tstools/tspInputExecutor.cpp):    *)
(*     initAllBuffers, receiveAndValidate, receiveAndStuff and the input   *)
(*     thread main().                                                      *)
(* Stage 1 is the input executor, stages 2 .. NStages-1 are the packet     *)
(* processors and stage NStages is the output executor; they form a ring.  *)
(***************************************************************************)
EXTENDS Integers, Naturals, Sequences, FiniteSets, TLC

\* ------------------------------------------------------------------------
\* Bounds of the model
\* ------------------------------------------------------------------------

\* _buffer->count(): number of packets in the global buffer.
BufCount == 4

\* Numbers of plugin executors in the modelled rings: input and output
\* alone, or with one packet processor between them.
StageCounts == {2, 3}

\* Largest number of plugin executors in a ring.
MaxStages == 3

\* Largest value of each --add-*-stuffing option.
MaxStuff == 1

\* Largest value of --max-input-packets (0 means unlimited).
MaxInputPkt == 1

\* Largest number of packets the input plugin can deliver before it ends.
MaxInput == 3

\* Bitrate values: 0 (unknown) and one known bitrate.
BitRates == {0, 1}

Min(a, b) == IF a <= b THEN a ELSE b

AllStages == 1 .. MaxStages

\* Restart requests which tspcontrol can send, and the new command lines of
\* a plugin which they can carry (every plugin is started with "A").
Requests == {1, 2}
ArgSets == {"B"}

\* Mutexes: _global_mutex and the mutex of each RestartData. Threads: the
\* thread of each stage and the caller of restart() for each RestartData.
GlobalMutex == 0
MutexIds == {GlobalMutex} \cup Requests
Free == 0
Caller(r) == MaxStages + r
Threads == AllStages \cup { Caller(r) : r \in Requests }


VARIABLES
    nstages,        \* number of plugin executors in the ring (2 + processors)
    failures,       \* the calls of a plugin which can fail during a restart
    bitrates,       \* bitrate values which getBitrate() and the plugins can produce
    controlled,     \* stages to which tspcontrol sends restart commands
    windows,        \* sizes of the windows offered to the production calls, when
                    \* the input executor is run alone, without the ring
    options,        \* Options: instuff_start, instuff_stop, instuff_nullpkt, instuff_inpkt, max_input_pkt
    phase,          \* "init" before initAllBuffers, then "run" or "failed"
    pkt_first,      \* PluginExecutor::_pkt_first, per stage
    pkt_cnt,        \* PluginExecutor::_pkt_cnt, per stage
    input_end,      \* PluginExecutor::_input_end, per stage
    bitrate,        \* PluginExecutor::_bitrate, per stage
    tsp_aborting,   \* TSP::_tsp_aborting, per stage
    tsp_bitrate,    \* TSP::_tsp_bitrate, per stage
    pc,             \* position of each stage thread
    loc,            \* output parameters of the last waitWork of each stage
    inp,            \* private state of the InputExecutor and of its input plugin
    stream,         \* history: the packets which the input executor passed downstream
    restart,        \* PluginExecutor::_restart, per stage
    restart_data,   \* PluginExecutor::_restart_data, per stage: a request, or 0 (null)
    requests,       \* the RestartData objects and the threads which called restart() with them
    mutex,          \* owner of _global_mutex and of the mutex of each RestartData (0 = free)
    plugin,         \* per stage, the command line arguments of the plugin, if it is started,
                    \* the attempts and the result of the last processPendingRestart()
    handed          \* history, per stage: sum of the counts its predecessor gave to passPackets
                    \* (plus the preload of initAllBuffers for the successor of the input,
                    \* plus the initial free space for the input) minus the sum of the
                    \* counts it gave to passPackets itself

vars == <<nstages, failures, mutex, bitrates, controlled, windows, options, phase, pkt_first, pkt_cnt, input_end, bitrate, tsp_aborting,
          tsp_bitrate, pc, loc, inp, stream, restart, restart_data, requests, plugin, handed>>

\* ------------------------------------------------------------------------
\* Ring topology (RingNode) and plugin types
\* ------------------------------------------------------------------------

InputStage == 1
OutputStage == nstages
Stages == 1 .. nstages

ringNext(s) == IF s = nstages THEN 1 ELSE s + 1
ringPrevious(s) == IF s = 1 THEN nstages ELSE s - 1

PluginType(s) == IF s = 1 THEN "INPUT_PLUGIN"
                 ELSE IF s = nstages THEN "OUTPUT_PLUGIN" ELSE "PROCESSOR_PLUGIN"

\* ------------------------------------------------------------------------
\* InputExecutor: reception of packets with input stuffing
\* ------------------------------------------------------------------------

\* n packets of the same kind in the buffer: "N" is a null packet written
\* by the input executor, "R" a valid packet received from the input plugin.
Packets(kind, n) == [i \in 1 .. n |-> kind]

\* What one call of InputPlugin::receive() can return when the plugin has
\* `left` packets to deliver: `count` packets (at most max_packets), the
\* first `bad` of them with a valid sync byte (bad = count: all are valid).
PluginReceive(left, max_packets) ==
    UNION { { [count |-> k, bad |-> b] : b \in 0 .. k } : k \in 0 .. Min(max_packets, left) }

\* receiveAndValidate() which would ask the plugin again after a loss of
\* synchronization.
ReceiveAndValidateResync(st, max_packets) ==
    { [count |-> r.bad,
       st |-> [st EXCEPT !.in_left = @ - r.count,
                         !.in_ended = @ \/ (max_packets > 0 /\ r.count = 0),
                         !.in_sync_lost = @ \/ (r.bad < r.count),
                         !.plugin_packets = @ + r.bad,
                         !.analyzed = @ + r.bad]]
      : r \in PluginReceive(st.in_left, max_packets) }

\* A validation which would keep and count every packet of the read.
ValidateReadKeepAll(st, max_packets, r) ==
    [count |-> r.count,
     st |-> [st EXCEPT !.in_left = @ - r.count,
                       !.in_ended = @ \/ (max_packets > 0 /\ r.count = 0),
                       !.in_sync_lost = (r.bad < r.count),
                       !.plugin_packets = @ + r.count,
                       !.analyzed = @ + r.count]]

\* receiveAndValidate() after the plugin returned r to a call of receive()
\* for max_packets packets: the packets before the first one without sync
\* byte are counted (addPluginPackets) and fed to the two analyzers, the
\* loop ends at that packet, which becomes the returned count. The state
\* records if receive() was called after a call which returned no packet.
ValidateRead(st, max_packets, r) ==
    [count |-> r.bad,
     st |-> [st EXCEPT !.in_left = @ - r.count,
                       !.receive_after_end = @ \/ st.in_ended,
                       !.in_ended = @ \/ (max_packets > 0 /\ r.count = 0),
                       !.in_sync_lost = (r.bad < r.count),
                       !.plugin_packets = @ + r.bad,
                       !.analyzed = @ + r.bad]]

\* InputExecutor::receiveAndValidate(): the possible (count, new state).
ReceiveAndValidate(st, max_packets) ==
    IF st.in_sync_lost
    THEN { [count |-> 0, st |-> st] }
    ELSE { ValidateRead(st, max_packets, r) : r \in PluginReceive(st.in_left, max_packets) }

\* receiveNullPackets(index, n), and the loop of the leading stuffing of
\* receiveAndStuff(): the slots which are written, as offsets from the
\* index given to the production call.
NullWrites(index, n) == index .. index + n - 1

\* receiveAndValidate(index, max_packets): the slots whose metadata are
\* reset and which are given to receive() of the plugin (none after a loss
\* of synchronization), as offsets from the index of the production call.
ValidateWrites(st, index, max_packets) ==
    IF st.in_sync_lost THEN {} ELSE index .. index + max_packets - 1

\* The loop of receiveAndStuff() which alternates null packets and input
\* packets (--add-input-stuffing): the possible (pkt_done, pkt_from_input, state).
RECURSIVE StuffLoop(_, _, _, _, _, _)
StuffLoop(st, pkt_remain, pkt_done, pkt_from_input, pkts, wr) ==
    IF pkt_remain = 0
    THEN { [pkt_done |-> pkt_done, pkt_from_input |-> pkt_from_input, st |-> st, pkts |-> pkts,
            wr |-> wr] }
    ELSE
      LET count1 == Min(st.instuff_nullpkt_remain, pkt_remain)   \* receiveNullPackets()
          st1 == [st EXCEPT !.instuff_nullpkt_remain = @ - count1]
          remain1 == pkt_remain - count1
          done1 == pkt_done + count1
          pkts1 == pkts \o Packets("N", count1)
          wr1 == wr \cup NullWrites(pkt_done, count1)
      IN IF remain1 = 0
         THEN { [pkt_done |-> done1, pkt_from_input |-> pkt_from_input, st |-> st1,
                 pkts |-> pkts1, wr |-> wr1] }
         ELSE
           LET st2 == IF st1.instuff_nullpkt_remain = 0 /\ st1.instuff_inpkt_remain = 0
                      THEN [st1 EXCEPT !.instuff_inpkt_remain = options.instuff_inpkt]
                      ELSE st1
               max_input == Min(remain1, st2.instuff_inpkt_remain)
               wr2 == wr1 \cup ValidateWrites(st2, done1, max_input)
           IN UNION {
                LET st3 == [r.st EXCEPT !.instuff_inpkt_remain = @ - r.count]
                    st4 == IF st3.instuff_nullpkt_remain = 0 /\ st3.instuff_inpkt_remain = 0
                           THEN [st3 EXCEPT !.instuff_nullpkt_remain = options.instuff_nullpkt]
                           ELSE st3
                IN IF r.count < max_input
                   THEN { [pkt_done |-> done1 + r.count,
                           pkt_from_input |-> pkt_from_input + r.count,
                           st |-> st4,
                           pkts |-> pkts1 \o Packets("R", r.count),
                           wr |-> wr2] }
                   ELSE StuffLoop(st4, remain1 - r.count, done1 + r.count,
                                  pkt_from_input + r.count,
                                  pkts1 \o Packets("R", r.count), wr2)
                : r \in ReceiveAndValidate(st2, max_input) }

\* receiveAndStuff() which would start a new cycle of input packets at each
\* call instead of resuming the interrupted run.
ReceiveAndStuffRestarted(st, max_packets) ==
    LET lead == Min(st.instuff_start_remain, max_packets)
        st1 == [st EXCEPT !.instuff_start_remain = @ - lead,
                          !.instuff_nullpkt_remain = 0,
                          !.instuff_inpkt_remain = 0]
        pkt_remain == max_packets - lead
    IN IF options.instuff_inpkt = 0
       THEN { [ret |-> IF r.count = 0 THEN 0 ELSE lead + r.count, st |-> r.st,
               pkts |-> IF r.count = 0 THEN << >>
                        ELSE Packets("N", lead) \o Packets("R", r.count),
               wr |-> NullWrites(0, lead) \cup ValidateWrites(st1, lead, pkt_remain)]
              : r \in ReceiveAndValidate(st1, pkt_remain) }
       ELSE { [ret |-> IF r.pkt_from_input = 0 THEN 0 ELSE r.pkt_done, st |-> r.st,
               pkts |-> IF r.pkt_from_input = 0 THEN << >> ELSE r.pkts,
               wr |-> r.wr]
              : r \in StuffLoop(st1, pkt_remain, lead, 0, Packets("N", lead), NullWrites(0, lead)) }

\* InputExecutor::receiveAndStuff(): the possible (returned count, new
\* state, packets written in the returned part of the window, slots written
\* as offsets from index).
ReceiveAndStuff(st, max_packets) ==
    LET lead == Min(st.instuff_start_remain, max_packets)
        st1 == [st EXCEPT !.instuff_start_remain = @ - lead]
        pkt_remain == max_packets - lead
    IN IF options.instuff_inpkt = 0
       THEN { [ret |-> IF r.count = 0 THEN 0 ELSE lead + r.count, st |-> r.st,
               pkts |-> IF r.count = 0 THEN << >>
                        ELSE Packets("N", lead) \o Packets("R", r.count),
               wr |-> NullWrites(0, lead) \cup ValidateWrites(st1, lead, pkt_remain)]
              : r \in ReceiveAndValidate(st1, pkt_remain) }
       ELSE { [ret |-> IF r.pkt_from_input = 0 THEN 0 ELSE r.pkt_done, st |-> r.st,
               pkts |-> IF r.pkt_from_input = 0 THEN << >> ELSE r.pkts,
               wr |-> r.wr]
              : r \in StuffLoop(st1, pkt_remain, lead, 0, Packets("N", lead), NullWrites(0, lead)) }

\* Trailing stuffing which would not be limited to the free part of the
\* window.
TrailingCountAll(st, pkt_read, pkt_max) ==
    IF st.plugin_completed /\ st.instuff_stop_remain > 0 /\ pkt_read < pkt_max
    THEN st.instuff_stop_remain ELSE 0

\* main(): the number of trailing null packets written after the pkt_read
\* packets of an iteration which can write pkt_max packets.
TrailingCount(st, pkt_read, pkt_max) ==
    IF st.plugin_completed /\ st.instuff_stop_remain > 0 /\ pkt_read < pkt_max
    THEN Min(st.instuff_stop_remain, pkt_max - pkt_read) ELSE 0

\* An iteration of main() which would not take a loss of synchronization
\* for the completion of the plugin.
MainReceiveSyncNotEnd(st, wait_cnt) ==
    LET pkt_max == IF options.max_input_pkt > 0 /\ wait_cnt > options.max_input_pkt
                   THEN options.max_input_pkt ELSE wait_cnt
        reads == IF ~st.plugin_completed
                 THEN { [ret |-> r.ret,
                         st |-> [r.st EXCEPT !.plugin_completed =
                                                (r.ret = 0 /\ ~r.st.in_sync_lost)],
                         pkts |-> r.pkts, wr |-> r.wr]
                        : r \in ReceiveAndStuff(st, pkt_max) }
                 ELSE { [ret |-> 0, st |-> st, pkts |-> << >>, wr |-> {}] }
    IN { LET trail == TrailingCount(r.st, r.ret, pkt_max)
             st2 == [r.st EXCEPT !.instuff_stop_remain = @ - trail]
         IN [pkt_read |-> r.ret + trail,
             input_end |-> (st2.plugin_completed /\ st2.instuff_stop_remain = 0),
             st |-> st2,
             pkts |-> r.pkts \o Packets("N", trail),
             wr |-> r.wr \cup NullWrites(r.ret, trail)]
         : r \in reads }

\* An iteration of main() which would declare the end of the input as soon
\* as the plugin is completed, trailing stuffing pending or not.
MainReceiveEndEarly(st, wait_cnt) ==
    LET pkt_max == IF options.max_input_pkt > 0 /\ wait_cnt > options.max_input_pkt
                   THEN options.max_input_pkt ELSE wait_cnt
        reads == IF ~st.plugin_completed
                 THEN { [ret |-> r.ret, st |-> [r.st EXCEPT !.plugin_completed = (r.ret = 0)],
                         pkts |-> r.pkts, wr |-> r.wr]
                        : r \in ReceiveAndStuff(st, pkt_max) }
                 ELSE { [ret |-> 0, st |-> st, pkts |-> << >>, wr |-> {}] }
    IN { LET trail == TrailingCount(r.st, r.ret, pkt_max)
             st2 == [r.st EXCEPT !.instuff_stop_remain = @ - trail]
         IN [pkt_read |-> r.ret + trail,
             input_end |-> st2.plugin_completed,
             st |-> st2,
             pkts |-> r.pkts \o Packets("N", trail),
             wr |-> r.wr \cup NullWrites(r.ret, trail)]
         : r \in reads }

\* The production part of one iteration of InputExecutor::main(), between
\* waitWork() and passPackets(): the possible (pkt_read, input_end, new
\* state, packets passed, slots written as offsets from pkt_first).
MainReceive(st, wait_cnt) ==
    LET pkt_max == IF options.max_input_pkt > 0 /\ wait_cnt > options.max_input_pkt
                   THEN options.max_input_pkt ELSE wait_cnt
        reads == IF ~st.plugin_completed
                 THEN { [ret |-> r.ret, st |-> [r.st EXCEPT !.plugin_completed = (r.ret = 0)],
                         pkts |-> r.pkts, wr |-> r.wr]
                        : r \in ReceiveAndStuff(st, pkt_max) }
                 ELSE { [ret |-> 0, st |-> st, pkts |-> << >>, wr |-> {}] }
    IN { LET trail == TrailingCount(r.st, r.ret, pkt_max)
             st2 == [r.st EXCEPT !.instuff_stop_remain = @ - trail]
         IN [pkt_read |-> r.ret + trail,
             input_end |-> (st2.plugin_completed /\ st2.instuff_stop_remain = 0),
             st |-> st2,
             pkts |-> r.pkts \o Packets("N", trail),
             wr |-> r.wr \cup NullWrites(r.ret, trail)]
         : r \in reads }

\* ------------------------------------------------------------------------
\* PluginExecutor: window handoff protocol
\* ------------------------------------------------------------------------

NoWork == [pkt_first |-> 0, pkt_cnt |-> 0,
           input_end |-> FALSE, aborted |-> FALSE, timeout |-> FALSE]

\* Mutant of PassFirst: the window start is not advanced.
PassFirstStuck(first, count) == first

\* passPackets(): new value of _pkt_first.
PassFirst(first, count) == (first + count) % BufCount

\* Mutant of PassCount: the passed packets stay in the window of the caller.
PassCountKept(cnt, count) == cnt

\* passPackets(): new value of _pkt_cnt of the caller.
PassCount(cnt, count) == cnt - count

\* Mutant of PassNextCount: the passed packets are not given to the next processor.
PassNextCountLost(cnt, count) == cnt

\* passPackets(): new value of _pkt_cnt of the next processor.
PassNextCount(cnt, count) == cnt + count

\* passPackets(): new value of _input_end of the next processor.
PassNextInputEnd(next_end, end) == next_end \/ end

\* passPackets(): new value of _bitrate of the next processor.
PassNextBitrate(next_bitrate, new_bitrate) == new_bitrate

\* A passPackets() which would not signal the next processor for the end
\* of input alone.
PassWakeNextData(count, end) == count > 0

\* passPackets(): the next processor is signalled when there is some data.
PassWakeNext(count, end) == count > 0 \/ end

\* Mutant of PassAborted: the abort is taken over the closure of the ring,
\* from the previous processor.
PassAbortedPrev(s, aborted) ==
    IF PluginType(s) # "OUTPUT_PLUGIN"
    THEN aborted \/ tsp_aborting[ringPrevious(s)]
    ELSE aborted

\* passPackets(): force to abort when the next processor is aborting, except
\* when current is output and next is input.
PassAborted(s, aborted) ==
    IF PluginType(s) # "OUTPUT_PLUGIN"
    THEN aborted \/ tsp_aborting[ringNext(s)]
    ELSE aborted

\* Mutant of AbortWake: the abort is signalled downstream.
AbortWakeNext(s) == {ringNext(s)}

\* passPackets() and setAbort(): the processors which are signalled when the
\* current one aborts.
AbortWake(s) == {ringPrevious(s)}

\* Mutant of WaitLoop: the wait ends on the abort of the current processor.
WaitLoopOwnAbort(s, timeout) ==
    pkt_cnt[s] = 0 /\ ~input_end[s] /\ ~timeout /\ ~tsp_aborting[s]

\* Mutant of WaitLoop: the abort of the next processor does not end the wait.
WaitLoopNoAbort(s, timeout) ==
    pkt_cnt[s] = 0 /\ ~input_end[s] /\ ~timeout

\* waitWork(): condition of the wait loop.
WaitLoop(s, timeout) ==
    pkt_cnt[s] = 0 /\ ~input_end[s] /\ ~timeout /\ ~tsp_aborting[ringNext(s)]

\* A waitWork() which would report the abort of the next processor to the
\* output as well.
WaitAbortedAlso(s) == tsp_aborting[ringNext(s)]

\* waitWork(): returned "aborted".
WaitAborted(s) == PluginType(s) # "OUTPUT_PLUGIN" /\ tsp_aborting[ringNext(s)]

\* A waitWork() which would return all the slots up to the end of the
\* buffer, in the window of the stage or not.
WaitCountToEnd(s, timeout) == IF timeout THEN 0 ELSE BufCount - pkt_first[s]

\* Mutant of WaitCount: the returned window is not cut at the end of the buffer.
WaitCountNoWrap(s, timeout) == IF timeout THEN 0 ELSE pkt_cnt[s]

\* waitWork(): returned pkt_cnt.
WaitCount(s, timeout) == IF timeout THEN 0 ELSE Min(pkt_cnt[s], BufCount - pkt_first[s])

\* A waitWork() which would report the end of input as soon as the flag of
\* the stage is set.
WaitInputEndFlag(s, timeout) == input_end[s]

\* waitWork(): returned input_end, the flag of the stage when the returned
\* range is its whole window.
WaitInputEnd(s, timeout) == input_end[s] /\ WaitCount(s, timeout) = pkt_cnt[s]

\* waitWork(): values of the output parameters after the wait loop. The
\* returned bitrate is the current _bitrate of the stage: it is not kept in
\* the model, the input thread ignores it and the other threads pass any
\* bitrate.
WaitResult(s, timeout) ==
    [pkt_first |-> pkt_first[s],
     pkt_cnt   |-> WaitCount(s, timeout),
     input_end |-> WaitInputEnd(s, timeout),
     aborted   |-> WaitAborted(s),
     timeout   |-> timeout]

\* Condition::signal() on the _to_do of each stage in `targets`: a thread
\* blocked in waitCondition() is awakened, any other thread is unaffected.
Signalled(targets, s, new_pc) ==
    [t \in AllStages |->
        IF t = s THEN new_pc
        ELSE IF t \in targets /\ pc[t] = "blocked" THEN "signalled"
        ELSE pc[t]]

\* waitWork(), from the call to the first evaluation of the loop condition.
WaitWorkCall(s) ==
    /\ phase = "run"
    /\ mutex[GlobalMutex] = Free
    /\ pc[s] = "idle"
    /\ IF WaitLoop(s, FALSE)
       THEN /\ pc' = [pc EXCEPT ![s] = "blocked"]
            /\ UNCHANGED loc
       ELSE /\ pc' = [pc EXCEPT ![s] = "got"]
            /\ loc' = [loc EXCEPT ![s] = WaitResult(s, FALSE)]
    /\ UNCHANGED <<restart, restart_data, requests, plugin, nstages, failures, mutex, bitrates, controlled, windows, options, phase, pkt_first, pkt_cnt, input_end, bitrate,
                   tsp_aborting, tsp_bitrate, inp, stream, handed>>

\* waitWork(): waitCondition(_tsp_timeout) expires.
WaitTimeout(s) ==
    /\ pc[s] = "blocked"
    /\ pc' = [pc EXCEPT ![s] = "timedout"]
    /\ UNCHANGED <<restart, restart_data, requests, plugin, nstages, failures, mutex, bitrates, controlled, windows, options, phase, pkt_first, pkt_cnt, input_end, bitrate,
                   tsp_aborting, tsp_bitrate, loc, inp, stream, handed>>

\* waitWork(): return of waitCondition(), with the mutex held again. On a
\* timeout, Plugin::handlePacketTimeout() returns `hook`.
WaitWorkResume(s) ==
    /\ mutex[GlobalMutex] = Free
    /\ pc[s] \in {"signalled", "timedout"}
    /\ \E hook \in (IF pc[s] = "timedout" THEN BOOLEAN ELSE {TRUE}) :
         LET timeout == (pc[s] = "timedout") /\ ~hook
         IN IF WaitLoop(s, timeout)
            THEN /\ pc' = [pc EXCEPT ![s] = "blocked"]
                 /\ UNCHANGED loc
            ELSE /\ pc' = [pc EXCEPT ![s] = "got"]
                 /\ loc' = [loc EXCEPT ![s] = WaitResult(s, timeout)]
    /\ UNCHANGED <<restart, restart_data, requests, plugin, nstages, failures, mutex, bitrates, controlled, windows, options, phase, pkt_first, pkt_cnt, input_end, bitrate,
                   tsp_aborting, tsp_bitrate, inp, stream, handed>>

\* passPackets(): returned value, false when the current processor shall stop.
PassReturn(s, end, aborted) == ~end /\ ~PassAborted(s, aborted)

\* An abort flag which passPackets() would assign at each call.
PassTspAbortingAssigned(aborting, aborted) == aborted

\* passPackets(): new value of _tsp_aborting of the current processor, set
\* when the call aborts and left alone otherwise.
PassTspAborting(aborting, aborted) == aborting \/ aborted

\* passPackets(count, new_bitrate, end, ab) called by the thread of stage s,
\* one step under the global mutex. `again` tells if the thread then loops
\* back to waitWork() or leaves its loop.
PassPackets(s, count, new_bitrate, end, ab, again) ==
    LET next == ringNext(s)
        aborted == PassAborted(s, ab)
        targets == (IF PassWakeNext(count, end) THEN {next} ELSE {})
                   \cup (IF aborted THEN AbortWake(s) ELSE {})
    IN /\ mutex[GlobalMutex] = Free
       /\ pkt_first' = [pkt_first EXCEPT ![s] = PassFirst(@, count)]
       /\ pkt_cnt' = [pkt_cnt EXCEPT ![s] = PassCount(@, count),
                                     ![next] = PassNextCount(@, count)]
       /\ input_end' = [input_end EXCEPT ![next] = PassNextInputEnd(@, end)]
       /\ bitrate' = [bitrate EXCEPT ![next] = PassNextBitrate(@, new_bitrate)]
       /\ tsp_aborting' = [tsp_aborting EXCEPT ![s] = PassTspAborting(@, aborted)]
       /\ pc' = Signalled(targets, s, IF again THEN "idle" ELSE "done")
       /\ handed' = [handed EXCEPT ![s] = @ - count, ![next] = @ + count]
       /\ loc' = [loc EXCEPT ![s] = NoWork]
       /\ UNCHANGED <<restart, restart_data, requests, plugin, nstages, failures, mutex, bitrates, controlled, windows, options, phase>>

\* setAbort() called on stage s.
SetAbort(s) ==
    /\ phase = "run"
    /\ mutex[GlobalMutex] = Free
    /\ tsp_aborting' = [tsp_aborting EXCEPT ![s] = TRUE]
    /\ pc' = Signalled(AbortWake(s), 0, "none")
    /\ UNCHANGED <<restart, restart_data, requests, plugin, nstages, failures, mutex, bitrates, controlled, windows, options, phase, pkt_first, pkt_cnt, input_end, bitrate,
                   tsp_bitrate, loc, inp, stream, handed>>

\* ------------------------------------------------------------------------
\* InputExecutor: buffer initialization and input thread
\* ------------------------------------------------------------------------

\* initAllBuffers(): number of packets to preload.
InitLoad == BufCount \div 2

\* initAllBuffers() which would leave the window of the input at the start
\* of the buffer.
InitInputFirstZero(pkt_read) == 0

\* initAllBuffers(): window of the input executor after the preload.
InitInputFirst(pkt_read) == pkt_read % BufCount
\* Mutant of InitInputCount: the input keeps the whole buffer.
InitInputCountAll(pkt_read) == BufCount

InitInputCount(pkt_read) == BufCount - pkt_read

\* initAllBuffers(), executed before the executor threads are started.
\* getBitrate() returns init_bitrate.
InitAllBuffers ==
    /\ phase = "init"
    /\ \E r \in ReceiveAndStuff(inp, InitLoad), init_bitrate \in bitrates :
         /\ inp' = r.st
         /\ stream' = stream \o r.pkts
         /\ IF r.ret = 0
            THEN /\ phase' = "failed"
                 /\ pkt_cnt' = [pkt_cnt EXCEPT ![InputStage] = BufCount]
                 /\ handed' = [handed EXCEPT ![InputStage] = BufCount]
                 /\ UNCHANGED <<pkt_first, bitrate, tsp_bitrate>>
            ELSE /\ phase' = "run"
                 /\ pkt_first' = [s \in AllStages |->
                                    IF s = InputStage THEN InitInputFirst(r.ret) ELSE 0]
                 /\ pkt_cnt' = [s \in AllStages |->
                                    IF s = InputStage THEN InitInputCount(r.ret)
                                    ELSE IF s = ringNext(InputStage) THEN r.ret ELSE 0]
                 /\ bitrate' = [s \in AllStages |-> IF s \in Stages THEN init_bitrate ELSE 0]
                 /\ tsp_bitrate' = [s \in AllStages |-> IF s \in Stages THEN init_bitrate ELSE 0]
                 /\ handed' = [s \in AllStages |->
                                    IF s = InputStage THEN BufCount - r.ret
                                    ELSE IF s = ringNext(InputStage) THEN r.ret ELSE 0]
    /\ UNCHANGED <<restart, restart_data, requests, plugin, nstages, failures, mutex, bitrates, controlled, windows, options, input_end, tsp_aborting, pc, loc>>

\* An iteration of main() which would pass aborted = true on a timeout.
InputIterateTimeoutAborts ==
    /\ pc[InputStage] = "got"
    /\ LET w == loc[InputStage]
       IN IF w.aborted
          THEN /\ pc' = [pc EXCEPT ![InputStage] = "done"]
               /\ loc' = [loc EXCEPT ![InputStage] = NoWork]
               /\ UNCHANGED <<restart, restart_data, requests, plugin, nstages, failures, mutex, bitrates, controlled, windows, options, phase, pkt_first, pkt_cnt, input_end,
                              bitrate, tsp_aborting, tsp_bitrate, inp, stream, handed>>
          ELSE IF w.timeout
          THEN /\ PassPackets(InputStage, 0, tsp_bitrate[InputStage], TRUE, TRUE, FALSE)
               /\ UNCHANGED <<inp, stream, tsp_bitrate>>
          ELSE \E r \in MainReceive(inp, w.pkt_cnt),
                  b \in {tsp_bitrate[InputStage]} \cup (bitrates \ {0}) :
               /\ inp' = r.st
               /\ stream' = stream \o r.pkts
               /\ tsp_bitrate' = [tsp_bitrate EXCEPT ![InputStage] = b]
               /\ PassPackets(InputStage, r.pkt_read, b, r.input_end, FALSE, ~r.input_end)

\* One iteration of InputExecutor::main() after the return of waitWork():
\* exit on abort, or passPackets(0, ..., true, false) and exit on timeout, or
\* reception, bitrate adjustment and passPackets(). The periodic bitrate
\* adjustment keeps _tsp_bitrate or replaces it by a positive getBitrate().
InputIterate ==
    /\ pc[InputStage] = "got"
    /\ LET w == loc[InputStage]
       IN IF w.aborted
          THEN /\ pc' = [pc EXCEPT ![InputStage] = "done"]
               /\ loc' = [loc EXCEPT ![InputStage] = NoWork]
               /\ UNCHANGED <<restart, restart_data, requests, plugin, nstages, failures, mutex, bitrates, controlled, windows, options, phase, pkt_first, pkt_cnt, input_end,
                              bitrate, tsp_aborting, tsp_bitrate, inp, stream, handed>>
          ELSE IF w.timeout
          THEN /\ PassPackets(InputStage, 0, tsp_bitrate[InputStage], TRUE, FALSE, FALSE)
               /\ UNCHANGED <<inp, stream, tsp_bitrate>>
          ELSE \E r \in MainReceive(inp, w.pkt_cnt),
                  b \in {tsp_bitrate[InputStage]} \cup (bitrates \ {0}) :
               /\ inp' = r.st
               /\ stream' = stream \o r.pkts
               /\ tsp_bitrate' = [tsp_bitrate EXCEPT ![InputStage] = b]
               /\ PassPackets(InputStage, r.pkt_read, b, r.input_end, FALSE, ~r.input_end)

\* The production call of initAllBuffers(), receiveAndStuff(0, w), for an
\* input executor run alone with a window of w packets.
LoadAlone ==
    /\ phase = "init"
    /\ \E w \in windows : \E r \in ReceiveAndStuff(inp, w) :
         /\ inp' = r.st
         /\ stream' = stream \o r.pkts
         /\ phase' = IF r.ret = 0 THEN "failed" ELSE "alone"
    /\ UNCHANGED <<restart, restart_data, requests, plugin, nstages, failures, mutex, bitrates, controlled, windows,
                   options, pkt_first, pkt_cnt, input_end, bitrate, tsp_aborting, tsp_bitrate,
                   pc, loc, handed>>

\* The production part of one iteration of InputExecutor::main(), for an
\* input executor run alone: waitWork() returned a window of w packets and
\* the loop ends when input_end is passed.
IterateAlone ==
    /\ phase = "alone"
    /\ pc[InputStage] = "idle"
    /\ \E w \in windows : \E r \in MainReceive(inp, w) :
         /\ inp' = r.st
         /\ stream' = stream \o r.pkts
         /\ pc' = [pc EXCEPT ![InputStage] = IF r.input_end THEN "done" ELSE "idle"]
    /\ UNCHANGED <<restart, restart_data, requests, plugin, nstages, failures, mutex, bitrates, controlled, windows,
                   options, phase, pkt_first, pkt_cnt, input_end, bitrate, tsp_aborting,
                   tsp_bitrate, loc, handed>>

\* ------------------------------------------------------------------------
\* Packet processor and output threads
\* ------------------------------------------------------------------------

\* One iteration of a processor or output thread after the return of
\* waitWork(): the plugin handled the packets of the returned window and the
\* thread passes `count` of them, then stops if passPackets() returns false.
\* A pending restart is processed first, between waitWork() and the packets.
StageIterate(s) ==
    /\ s # InputStage
    /\ pc[s] = "got"
    /\ ~(restart[s] /\ restart_data[s] # 0)
    /\ \E count \in 0 .. loc[s].pkt_cnt, b \in bitrates, end \in BOOLEAN, ab \in BOOLEAN :
         PassPackets(s, count, b, end, ab, PassReturn(s, end, ab))
    /\ UNCHANGED <<tsp_bitrate, inp, stream>>

\* ------------------------------------------------------------------------
\* PluginExecutor: restart of a plugin
\* ------------------------------------------------------------------------

\* A RestartData which is not created yet.
NoRequest == [caller |-> "none", stage |-> 0, same_args |-> TRUE, args |-> "",
              completed |-> FALSE, report |-> {}, signals |-> 0]

\* RestartData::RestartData(), for a restart of the plugin of stage s.
RestartData(s, same, params) ==
    [caller |-> "waiting", stage |-> s, same_args |-> same, args |-> params,
     completed |-> FALSE, report |-> {}, signals |-> 0]

\* restart() which would leave the previous pending restart operation as it is.
RestartCancelForgotten(old) == old

\* restart(): the previous pending restart operation is cancelled.
RestartCancel(old) ==
    [old EXCEPT !.completed = TRUE,
                !.report = @ \cup {"error: restart interrupted by another concurrent restart"},
                !.signals = @ + 1]

\* restart(rd) called on stage s by a thread of tspcontrol with the new
\* RestartData r, up to the release of the global mutex: the thread then
\* waits for the completion of r.
Restart(s, r) ==
    /\ phase = "run"
    /\ mutex[GlobalMutex] = Free
    /\ s \in controlled
    /\ requests[r].caller = "none"
    /\ \A q \in Requests : q < r => requests[q].caller # "none"
    /\ \E same \in BOOLEAN : \E params \in (IF same THEN {""} ELSE ArgSets) :
         requests' = [q \in Requests |->
                        IF q = r THEN RestartData(s, same, params)
                        ELSE IF q = restart_data[s] THEN RestartCancel(requests[q])
                        ELSE requests[q]]
    /\ restart_data' = [restart_data EXCEPT ![s] = r]
    /\ restart' = [restart EXCEPT ![s] = TRUE]
    /\ pc' = Signalled({s}, 0, "none")
    /\ UNCHANGED <<nstages, failures, mutex, bitrates, controlled, windows, options, phase, pkt_first, pkt_cnt, input_end, bitrate,
                   tsp_aborting, tsp_bitrate, loc, inp, stream, plugin, handed>>

\* restart(): the caller finds its RestartData completed and returns.
RestartReturn(r) ==
    /\ requests[r].caller = "waiting"
    /\ requests[r].completed
    /\ requests' = [requests EXCEPT ![r] = [NoRequest EXCEPT !.caller = "returned"]]
    /\ UNCHANGED <<nstages, failures, mutex, bitrates, controlled, windows, options, phase, pkt_first, pkt_cnt, input_end, bitrate,
                   tsp_aborting, tsp_bitrate, pc, loc, inp, stream, restart, restart_data, plugin, handed>>

\* processPendingRestart(): the value it returns, where ok_new and ok_prev
\* tell if analyze(), getOptions() and start() succeed with the arguments of
\* rd (start() alone when they are the same) and with the previous arguments.
RestartSuccess(rd, ok_new, ok_prev) ==
    IF rd.same_args THEN ok_new
    ELSE IF ok_new THEN TRUE
    ELSE ok_prev

\* processPendingRestart(): the attempts to start the plugin p, in order,
\* each with the arguments it ran with and its outcome.
RestartCalls(p, rd, ok_new, ok_prev) ==
    IF rd.same_args THEN << [args |-> p.args, ok |-> ok_new] >>
    ELSE IF ok_new THEN << [args |-> rd.args, ok |-> TRUE] >>
    ELSE << [args |-> rd.args, ok |-> FALSE], [args |-> p.args, ok |-> ok_prev] >>

\* processPendingRestart() which would not restart the plugin with its
\* previous arguments when the new ones fail.
RestartPluginNoFallback(p, rd, ok_new, ok_prev) ==
    IF rd.same_args
    THEN [args |-> p.args, started |-> ok_new,
          calls |-> RestartCalls(p, rd, ok_new, ok_prev),
          success |-> RestartSuccess(rd, ok_new, ok_prev)]
    ELSE [args |-> rd.args, started |-> ok_new,
          calls |-> RestartCalls(p, rd, ok_new, ok_prev),
          success |-> ok_new]

\* processPendingRestart(): the plugin after stop() and the restart with the
\* arguments of rd.
RestartPlugin(p, rd, ok_new, ok_prev) ==
    [args    |-> IF ~rd.same_args /\ ok_new THEN rd.args ELSE p.args,
     started |-> RestartSuccess(rd, ok_new, ok_prev),
     calls   |-> RestartCalls(p, rd, ok_new, ok_prev),
     success |-> RestartSuccess(rd, ok_new, ok_prev)]

\* processPendingRestart(): the messages sent to the report of rd.
RestartReport(rd, ok_new) ==
    {"verbose: restarting plugin"}
    \cup (IF ~rd.same_args /\ ~ok_new
          THEN {"warning: failed to restart plugin, restarting with previous parameters"}
          ELSE {})

\* processPendingRestart() which would notify the caller of restart() only
\* when the plugin has restarted.
RestartCompleteIfSuccess(rd, ok_new, ok_prev) ==
    IF RestartSuccess(rd, ok_new, ok_prev)
    THEN [rd EXCEPT !.report = @ \cup RestartReport(rd, ok_new),
                    !.completed = TRUE,
                    !.signals = @ + 1]
    ELSE [rd EXCEPT !.report = @ \cup RestartReport(rd, ok_new)]

\* processPendingRestart(): the RestartData rd when the function returns,
\* with the messages it received, completed, its condition signalled.
RestartComplete(rd, ok_new, ok_prev) ==
    [rd EXCEPT !.report = @ \cup RestartReport(rd, ok_new),
               !.completed = TRUE,
               !.signals = @ + 1]

\* Where an attempt to start the plugin can fail: nowhere, in analyze(), in
\* getOptions() or in start().
FailPoints == {"none", "analyze", "getOptions", "start"}

\* An attempt which would call getOptions() and start() whatever analyze()
\* and getOptions() return.
UnitCallsAll(fail) == << "analyze", "getOptions", "start" >>

\* processPendingRestart(): the calls of the expression analyze() &&
\* getOptions() && start() which fails at `fail`.
UnitCalls(fail) ==
    IF fail = "analyze" THEN << "analyze" >>
    ELSE IF fail = "getOptions" THEN << "analyze", "getOptions" >>
    ELSE << "analyze", "getOptions", "start" >>

\* A processPendingRestart() which would leave the report of the request
\* installed in the plugin.
RestoredReportKept(previous_report, r) == r

\* processPendingRestart(): the report of the plugin after the second
\* redirectReport().
RestoredReport(previous_report, r) == previous_report

\* processPendingRestart(): the calls of one attempt analyze() &&
\* getOptions() && start() which fails at `fail`, each with its result and
\* with the report r installed in the plugin.
Attempt(fail, r) ==
    [i \in 1 .. Len(UnitCalls(fail)) |->
        [op |-> UnitCalls(fail)[i], ok |-> UnitCalls(fail)[i] # fail, report |-> r]]

\* processPendingRestart(): the calls of the plugin p for the request r, in
\* order, each with its result and the report installed in the plugin when
\* it is made: stop(), then redirectReport(), then start() alone (which
\* fails unless fail_new is "none") or the attempt with the new arguments
\* and, when it fails, the attempt with the previous ones.
RestartTrace(p, r, fail_new, fail_prev) ==
    << [op |-> "stop", ok |-> TRUE, report |-> p.report] >>
    \o (IF requests[r].same_args
        THEN << [op |-> "start", ok |-> fail_new = "none", report |-> r] >>
        ELSE IF fail_new = "none" THEN Attempt(fail_new, r)
        ELSE Attempt(fail_new, r) \o Attempt(fail_prev, r))

\* processPendingRestart(): the plugin p when the function returns.
RestartedPlugin(p, r, fail_new, fail_prev) ==
    [trace  |-> RestartTrace(p, r, fail_new, fail_prev),
     report |-> RestoredReport(p.report, r)]
    @@ RestartPlugin(p, requests[r], fail_new = "none", fail_prev = "none")

\* A processPendingRestart() which would set the abort flag of the stage
\* when the plugin could not be restarted.
ProcessPendingRestartAborting(s) ==
    /\ s # InputStage
    /\ mutex[GlobalMutex] = Free
    /\ pc[s] = "got"
    /\ restart[s] /\ restart_data[s] # 0
    /\ \E fail_new \in failures, fail_prev \in failures :
         LET r == restart_data[s]
         IN /\ plugin' = [plugin EXCEPT ![s] = RestartedPlugin(@, r, fail_new, fail_prev)]
            /\ requests' = [requests EXCEPT ![r] =
                               RestartComplete(@, fail_new = "none", fail_prev = "none")]
    /\ tsp_aborting' = [tsp_aborting EXCEPT ![s] = @ \/ ~plugin'[s].success]
    /\ restart' = [restart EXCEPT ![s] = FALSE]
    /\ restart_data' = [restart_data EXCEPT ![s] = 0]
    /\ UNCHANGED <<nstages, failures, mutex, bitrates, controlled, windows, options, phase, pkt_first, pkt_cnt, input_end, bitrate,
                   tsp_bitrate, pc, loc, inp, stream, handed>>

\* processPendingRestart() called by the thread of stage s when a restart
\* is pending (it returns at once when there is none). The input thread
\* never calls it; the other threads call it after waitWork().
ProcessPendingRestart(s) ==
    /\ s # InputStage
    /\ mutex[GlobalMutex] = Free
    /\ pc[s] = "got"
    /\ restart[s] /\ restart_data[s] # 0
    /\ \E fail_new \in failures, fail_prev \in failures :
         LET r == restart_data[s]
         IN /\ plugin' = [plugin EXCEPT ![s] = RestartedPlugin(@, r, fail_new, fail_prev)]
            /\ requests' = [requests EXCEPT ![r] =
                               RestartComplete(@, fail_new = "none", fail_prev = "none")]
    /\ restart' = [restart EXCEPT ![s] = FALSE]
    /\ restart_data' = [restart_data EXCEPT ![s] = 0]
    /\ UNCHANGED <<nstages, failures, mutex, bitrates, controlled, windows, options, phase, pkt_first, pkt_cnt, input_end, bitrate,
                   tsp_aborting, tsp_bitrate, pc, loc, inp, stream, handed>>

\* ------------------------------------------------------------------------
\* PluginExecutor: restart of a plugin, one step per mutex operation
\* ------------------------------------------------------------------------

\* restart() which would keep _global_mutex while it waits for the completion.
RestartKeepLock1(m) == m

\* restart(): end of the block of lock1, _global_mutex is released.
RestartUnlock1(m) == [m EXCEPT ![GlobalMutex] = Free]

\* restart(rd) is called on stage s with the new RestartData r.
RestartEnter(s, r) ==
    /\ phase = "run"
    /\ s \in controlled
    /\ requests[r].caller = "none"
    /\ \A q \in Requests : q < r => requests[q].caller # "none"
    /\ \E same \in BOOLEAN : \E params \in (IF same THEN {""} ELSE ArgSets) :
         requests' = [requests EXCEPT ![r] = [RestartData(s, same, params) EXCEPT !.caller = "enter"]]
    /\ UNCHANGED <<nstages, failures, bitrates, controlled, windows, options, phase, pkt_first, pkt_cnt,
                   input_end, bitrate, tsp_aborting, tsp_bitrate, loc, inp, stream, handed,
                   pc, restart, restart_data, plugin, mutex>>

\* restart(): lock1 acquires _global_mutex.
RestartLock1(r) ==
    /\ requests[r].caller = "enter"
    /\ mutex[GlobalMutex] = Free
    /\ mutex' = [mutex EXCEPT ![GlobalMutex] = Caller(r)]
    /\ requests' = [requests EXCEPT ![r].caller = "lock1"]
    /\ UNCHANGED <<nstages, failures, bitrates, controlled, windows, options, phase, pkt_first, pkt_cnt,
                   input_end, bitrate, tsp_aborting, tsp_bitrate, loc, inp, stream, handed,
                   pc, restart, restart_data, plugin>>

\* restart(): a restart is pending, lock2 acquires the mutex of its RestartData.
RestartLock2(r) ==
    LET old == restart_data[requests[r].stage]
    IN /\ requests[r].caller = "lock1"
       /\ old # 0
       /\ mutex[old] = Free
       /\ mutex' = [mutex EXCEPT ![old] = Caller(r)]
       /\ requests' = [requests EXCEPT ![r].caller = "lock2"]
       /\ UNCHANGED <<nstages, failures, bitrates, controlled, windows, options, phase, pkt_first, pkt_cnt,
                      input_end, bitrate, tsp_aborting, tsp_bitrate, loc, inp, stream, handed,
                      pc, restart, restart_data, plugin>>

\* restart(): the pending restart is cancelled and lock2 is released.
RestartCancelled(r) ==
    LET old == restart_data[requests[r].stage]
    IN /\ requests[r].caller = "lock2"
       /\ requests' = [requests EXCEPT ![old] = RestartCancel(@), ![r].caller = "declare"]
       /\ mutex' = [mutex EXCEPT ![old] = Free]
       /\ UNCHANGED <<nstages, failures, bitrates, controlled, windows, options, phase, pkt_first, pkt_cnt,
                      input_end, bitrate, tsp_aborting, tsp_bitrate, loc, inp, stream, handed,
                      pc, restart, restart_data, plugin>>

\* restart(): the new restart is declared, the thread of the stage is
\* signalled and lock1 is released.
RestartDeclare(r) ==
    LET s == requests[r].stage
    IN /\ \/ requests[r].caller = "lock1" /\ restart_data[s] = 0
          \/ requests[r].caller = "declare"
       /\ restart_data' = [restart_data EXCEPT ![s] = r]
       /\ restart' = [restart EXCEPT ![s] = TRUE]
       /\ pc' = Signalled({s}, 0, "none")
       /\ mutex' = RestartUnlock1(mutex)
       /\ requests' = [requests EXCEPT ![r].caller = "lock3"]
       /\ UNCHANGED <<nstages, failures, bitrates, controlled, windows, options, phase, pkt_first, pkt_cnt,
                      input_end, bitrate, tsp_aborting, tsp_bitrate, loc, inp, stream, handed,
                      plugin>>

\* restart(): lock3 acquires the mutex of rd, at first or at the return of
\* waitCondition().
RestartLock3(r) ==
    /\ requests[r].caller \in {"lock3", "woken"}
    /\ mutex[r] = Free
    /\ mutex' = [mutex EXCEPT ![r] = Caller(r)]
    /\ requests' = [requests EXCEPT ![r].caller = "check"]
    /\ UNCHANGED <<nstages, failures, bitrates, controlled, windows, options, phase, pkt_first, pkt_cnt,
                   input_end, bitrate, tsp_aborting, tsp_bitrate, loc, inp, stream, handed,
                   pc, restart, restart_data, plugin>>

\* restart(): test of rd->completed with the mutex of rd: the function
\* returns, or waitCondition() releases the mutex and waits.
RestartCheck(r) ==
    /\ requests[r].caller = "check"
    /\ mutex' = [mutex EXCEPT ![r] = Free]
    /\ requests' = [requests EXCEPT ![r] = IF @.completed
                                           THEN [NoRequest EXCEPT !.caller = "returned"]
                                           ELSE [@ EXCEPT !.caller = "waiting"]]
    /\ UNCHANGED <<nstages, failures, bitrates, controlled, windows, options, phase, pkt_first, pkt_cnt,
                   input_end, bitrate, tsp_aborting, tsp_bitrate, loc, inp, stream, handed,
                   pc, restart, restart_data, plugin>>

\* restart(): the condition of rd was signalled, waitCondition() wakes up.
RestartWake(r) ==
    /\ requests[r].caller = "waiting"
    /\ requests[r].signals > 0
    /\ requests' = [requests EXCEPT ![r].caller = "woken"]
    /\ UNCHANGED <<nstages, failures, bitrates, controlled, windows, options, phase, pkt_first, pkt_cnt,
                   input_end, bitrate, tsp_aborting, tsp_bitrate, loc, inp, stream, handed,
                   pc, restart, restart_data, plugin, mutex>>

\* processPendingRestart(): the thread of stage s has a pending restart,
\* lock1 acquires _global_mutex.
ProcessLock1(s) ==
    /\ s # InputStage
    /\ pc[s] = "got"
    /\ restart[s] /\ restart_data[s] # 0
    /\ mutex[GlobalMutex] = Free
    /\ mutex' = [mutex EXCEPT ![GlobalMutex] = s]
    /\ pc' = [pc EXCEPT ![s] = "process1"]
    /\ UNCHANGED <<nstages, failures, bitrates, controlled, windows, options, phase, pkt_first, pkt_cnt,
                   input_end, bitrate, tsp_aborting, tsp_bitrate, loc, inp, stream, handed,
                   restart, restart_data, requests, plugin>>

\* processPendingRestart(): lock2 acquires the mutex of the RestartData.
ProcessLock2(s) ==
    /\ pc[s] = "process1"
    /\ mutex[restart_data[s]] = Free
    /\ mutex' = [mutex EXCEPT ![restart_data[s]] = s]
    /\ pc' = [pc EXCEPT ![s] = "process2"]
    /\ UNCHANGED <<nstages, failures, bitrates, controlled, windows, options, phase, pkt_first, pkt_cnt,
                   input_end, bitrate, tsp_aborting, tsp_bitrate, loc, inp, stream, handed,
                   restart, restart_data, requests, plugin>>

\* processPendingRestart(): the plugin is restarted, the caller of restart()
\* is notified and both mutexes are released.
ProcessRestart(s) ==
    /\ pc[s] = "process2"
    /\ \E fail_new \in failures, fail_prev \in failures :
         LET r == restart_data[s]
         IN /\ plugin' = [plugin EXCEPT ![s] = RestartedPlugin(@, r, fail_new, fail_prev)]
            /\ requests' = [requests EXCEPT ![r] =
                               RestartComplete(@, fail_new = "none", fail_prev = "none")]
            /\ mutex' = [mutex EXCEPT ![r] = Free, ![GlobalMutex] = Free]
    /\ restart' = [restart EXCEPT ![s] = FALSE]
    /\ restart_data' = [restart_data EXCEPT ![s] = 0]
    /\ pc' = [pc EXCEPT ![s] = "got"]
    /\ UNCHANGED <<nstages, failures, bitrates, controlled, windows, options, phase, pkt_first, pkt_cnt,
                   input_end, bitrate, tsp_aborting, tsp_bitrate, loc, inp, stream, handed>>

\* ------------------------------------------------------------------------
\* InputExecutor: evaluation of the input bitrate
\* ------------------------------------------------------------------------

\* Largest number of evaluations of getBitrate() in a run.
MaxEvals == 3

\* Bitrates the input plugin reports (0 = none), the PCR analyzer computes
\* and the DTS analyzer computes.
PluginRates == {0, 30}
PcrRates == {0, 10}
DtsRates == {0, 20, 21}

\* No evaluation of getBitrate() yet. An evaluation records its rank, what
\* it found (the flag _use_dts_analyzer, the validity of the PCR analyzer)
\* and the bitrate it returned.
NoEvaluation == [n |-> 0, was_dts |-> FALSE, pcr_valid |-> FALSE, bitrate |-> 0]

\* getBitrate() which would come back to the PCR analyzer when it is valid.
GetBitrateNotSticky(st) ==
    LET b == IF options.bitrate > 0 THEN options.bitrate ELSE st.plugin_bitrate
    IN IF b # 0
       THEN [bitrate |-> IF options.instuff_inpkt = 0 THEN b
                         ELSE (b * (options.instuff_nullpkt + options.instuff_inpkt))
                              \div options.instuff_inpkt,
             st |-> st]
       ELSE IF st.pcr_analyzer.valid
       THEN [bitrate |-> st.pcr_analyzer.bitrate188, st |-> st]
       ELSE LET use == st.use_dts_analyzer \/ st.dts_analyzer.valid
            IN [bitrate |-> IF use THEN st.dts_analyzer.bitrate188 ELSE 0,
                st |-> [st EXCEPT !.use_dts_analyzer = use]]

\* getBitrate() which would try the DTS analyzer before the PCR analyzer.
GetBitrateDtsFirst(st) ==
    LET b == IF options.bitrate > 0 THEN options.bitrate ELSE st.plugin_bitrate
        use == st.use_dts_analyzer \/ st.dts_analyzer.valid
    IN IF b # 0
       THEN [bitrate |-> IF options.instuff_inpkt = 0 THEN b
                         ELSE (b * (options.instuff_nullpkt + options.instuff_inpkt))
                              \div options.instuff_inpkt,
             st |-> st]
       ELSE IF use
       THEN [bitrate |-> st.dts_analyzer.bitrate188,
             st |-> [st EXCEPT !.use_dts_analyzer = TRUE]]
       ELSE [bitrate |-> IF st.pcr_analyzer.valid THEN st.pcr_analyzer.bitrate188 ELSE 0,
             st |-> st]

\* InputExecutor::getBitrate(): the bitrate it returns and the new state.
GetBitrate(st) ==
    LET b == IF options.bitrate > 0 THEN options.bitrate ELSE st.plugin_bitrate
    IN IF b # 0
       THEN [bitrate |-> IF options.instuff_inpkt = 0 THEN b
                         ELSE (b * (options.instuff_nullpkt + options.instuff_inpkt))
                              \div options.instuff_inpkt,
             st |-> st]
       ELSE IF ~st.use_dts_analyzer /\ st.pcr_analyzer.valid
       THEN [bitrate |-> st.pcr_analyzer.bitrate188, st |-> st]
       ELSE LET use == st.use_dts_analyzer \/ st.dts_analyzer.valid
            IN [bitrate |-> IF use THEN st.dts_analyzer.bitrate188 ELSE 0,
                st |-> [st EXCEPT !.use_dts_analyzer = use]]

\* One evaluation of getBitrate() by the input thread.
GetBitrateCall ==
    /\ inp.evaluation.n < MaxEvals
    /\ LET r == GetBitrate(inp)
       IN inp' = [r.st EXCEPT !.evaluation = [n         |-> inp.evaluation.n + 1,
                                              was_dts   |-> inp.use_dts_analyzer,
                                              pcr_valid |-> inp.pcr_analyzer.valid,
                                              bitrate   |-> r.bitrate]]
    /\ UNCHANGED <<nstages, failures, mutex, bitrates, controlled, windows, options, phase, pkt_first, pkt_cnt,
                   input_end, bitrate, tsp_aborting, tsp_bitrate, pc, loc, stream, restart,
                   restart_data, requests, plugin, handed>>

\* Between two evaluations the packets fed to the PCR and DTS analyzers
\* change what they compute, and the input plugin reports another bitrate.
FeedAnalyzers ==
    /\ \E pv \in BOOLEAN, pb \in PcrRates, dv \in BOOLEAN, db \in DtsRates, b \in PluginRates :
         inp' = [inp EXCEPT !.pcr_analyzer = [valid |-> pv, bitrate188 |-> pb],
                            !.dts_analyzer = [valid |-> dv, bitrate188 |-> db],
                            !.plugin_bitrate = b]
    /\ UNCHANGED <<nstages, failures, mutex, bitrates, controlled, windows, options, phase, pkt_first, pkt_cnt,
                   input_end, bitrate, tsp_aborting, tsp_bitrate, pc, loc, stream, restart,
                   restart_data, requests, plugin, handed>>

\* ------------------------------------------------------------------------
\* Specification
\* ------------------------------------------------------------------------

OptionsSet == [instuff_start   : 0 .. MaxStuff,
               instuff_stop    : 0 .. MaxStuff,
               instuff_nullpkt : 0 .. MaxStuff,
               instuff_inpkt   : 0 .. MaxStuff,
               max_input_pkt   : 0 .. MaxInputPkt,
               bitrate         : {0}]

\* State after the construction of the executors of a ring of n stages
\* running with options o, where the bitrates of brs can be produced,
\* tspcontrol sends restart commands to the stages of ctl, the production
\* calls of an input executor run alone are offered the window sizes of wins
\* and the input plugin has `left` packets to deliver.
InitPipelineFailing(n, o, brs, ctl, wins, left, fps) ==
    /\ nstages = n
    /\ failures = fps
    /\ mutex = [m \in MutexIds |-> Free]
    /\ bitrates = brs
    /\ controlled = ctl
    /\ windows = wins
    /\ stream = << >>
    /\ options = o
    /\ phase = "init"
    /\ pkt_first = [s \in AllStages |-> 0]
    /\ pkt_cnt = [s \in AllStages |-> 0]
    /\ input_end = [s \in AllStages |-> FALSE]
    /\ bitrate = [s \in AllStages |-> 0]
    /\ tsp_aborting = [s \in AllStages |-> FALSE]
    /\ tsp_bitrate = [s \in AllStages |-> 0]
    /\ pc = [s \in AllStages |-> IF s <= n THEN "idle" ELSE "none"]
    /\ loc = [s \in AllStages |-> NoWork]
    /\ inp = [in_sync_lost            |-> FALSE,
              instuff_start_remain    |-> o.instuff_start,
              instuff_stop_remain     |-> o.instuff_stop,
              instuff_nullpkt_remain  |-> 0,
              instuff_inpkt_remain    |-> 0,
              plugin_completed        |-> FALSE,
              in_left                 |-> left,
              in_ended                |-> FALSE,
              receive_after_end       |-> FALSE,
              plugin_packets          |-> 0,
              analyzed                |-> 0,
              use_dts_analyzer        |-> FALSE,
              pcr_analyzer            |-> [valid |-> FALSE, bitrate188 |-> 0],
              dts_analyzer            |-> [valid |-> FALSE, bitrate188 |-> 0],
              plugin_bitrate          |-> 0,
              evaluation              |-> NoEvaluation]
    /\ handed = [s \in AllStages |-> 0]
    /\ restart = [s \in AllStages |-> FALSE]
    /\ restart_data = [s \in AllStages |-> 0]
    /\ requests = [r \in Requests |-> NoRequest]
    /\ plugin = [s \in AllStages |-> [args |-> "A", started |-> TRUE, calls |-> << >>,
                                      success |-> TRUE, trace |-> << >>, report |-> 0]]

\* The same when only the start of a plugin can fail during a restart.
InitPipeline(n, o, brs, ctl, wins, left) ==
    InitPipelineFailing(n, o, brs, ctl, wins, left, {"none", "start"})

\* The same with an input plugin which has MaxInput packets to deliver, in a ring.
InitState(n, o, brs, ctl) == InitPipeline(n, o, brs, ctl, {}, MaxInput)

\* Options of the rings of Spec: the same number of leading and trailing
\* stuffing packets, no --add-input-stuffing and no --max-input-packets.
RingOptions == { o \in OptionsSet :
                   /\ o.instuff_stop = o.instuff_start
                   /\ o.instuff_nullpkt = 0
                   /\ o.instuff_inpkt = 0
                   /\ o.max_input_pkt = 0 }

\* Rings of 2 or 3 stages, bitrate always unknown.
Init == \E n \in StageCounts, o \in RingOptions : InitState(n, o, {0}, {})

\* Input and output alone, every combination of options, bitrate always unknown.
InitInput == \E o \in OptionsSet : InitState(2, o, {0}, {})

\* Input and output alone, no stuffing, known and unknown bitrates.
InitBitrate == \E o \in {x \in RingOptions : x.instuff_start = 0} : InitState(2, o, BitRates, {})

Next ==
    \/ InitAllBuffers
    \/ \E s \in Stages : WaitWorkCall(s)
    \/ \E s \in Stages : WaitTimeout(s)
    \/ \E s \in Stages : WaitWorkResume(s)
    \/ InputIterate
    \/ \E s \in Stages : StageIterate(s)
    \/ \E s \in Stages : SetAbort(s)

Spec == Init /\ [][Next]_vars

SpecInput == InitInput /\ [][Next]_vars

SpecBitrate == InitBitrate /\ [][Next]_vars

\* Input and output alone with 2 trailing null packets, with and without
\* a limit of 1 packet per production call of the input.
InitTrailing ==
    \E m \in 0 .. MaxInputPkt :
        InitState(2, [instuff_start |-> 0, instuff_stop |-> 2, instuff_nullpkt |-> 0,
                      instuff_inpkt |-> 0, max_input_pkt |-> m, bitrate |-> 0], {0}, {})

SpecTrailing == InitTrailing /\ [][Next]_vars

\* Input and output alone with every combination of the stuffing options,
\* where the trailing stuffing, when there is one, is of two packets for
\* each packet of the other stuffings.
InitWrites ==
    \E o \in OptionsSet : InitState(2, [o EXCEPT !.instuff_stop = 2 * @], {0}, {})

SpecWrites == InitWrites /\ [][Next]_vars

\* A ring of 3 stages without stuffing where every thread which can enter
\* waitWork() or return from waitCondition() eventually does. The timeout of
\* waitWork() may be infinite and nothing forces a call of setAbort().
InitRing == \E o \in {x \in RingOptions : x.instuff_start = 0} : InitState(MaxStages, o, {0}, {})

FairWait ==
    \A s \in AllStages : WF_vars(WaitWorkCall(s)) /\ WF_vars(WaitWorkResume(s))

SpecFairWait == InitRing /\ [][Next]_vars /\ FairWait

\* The input executor alone: its production calls are offered windows of
\* any of the sizes of `windows`.
NextAlone ==
    \/ LoadAlone
    \/ IterateAlone

\* Largest window offered to a production call of the input executor alone.
MaxWindow == 3

\* Every combination of options, windows of 1 to MaxWindow packets.
InitAlone ==
    \E o \in OptionsSet : InitPipeline(2, o, {0}, {}, 1 .. MaxWindow, MaxInput)

SpecAlone == InitAlone /\ [][NextAlone]_vars

\* Leading stuffing 3, trailing stuffing 2, 2 null packets every 5 input
\* packets, an input plugin with 11 packets, windows of more packets than
\* the null packets which can be pending, or of all the packets at once.
InitArith ==
    InitPipeline(2, [instuff_start |-> 3, instuff_stop |-> 2, instuff_nullpkt |-> 2,
                     instuff_inpkt |-> 5, max_input_pkt |-> 0, bitrate |-> 0],
                 {0}, {}, {2, 4, 5, 6, 24}, 11)

SpecArith == InitArith /\ [][NextAlone]_vars

\* Evaluations of the input bitrate alone, with and without a bitrate on the
\* command line, with and without interleaved stuffing.
NextGetBitrate == \/ GetBitrateCall \/ FeedAnalyzers

DeclaredRates == {0, 40}

InitGetBitrate ==
    \E b \in DeclaredRates : \E m \in {0, 2} :
       InitPipeline(2, [instuff_start |-> 0, instuff_stop |-> 0, instuff_nullpkt |-> 1,
                        instuff_inpkt |-> m, max_input_pkt |-> 0, bitrate |-> b],
                    {0}, {}, {}, 0)

SpecGetBitrate == InitGetBitrate /\ [][NextGetBitrate]_vars

\* The pipeline together with tspcontrol, which sends restart commands.
NextRestart ==
    \/ Next
    \/ \E s \in Stages : \E r \in Requests : Restart(s, r)
    \/ \E r \in Requests : RestartReturn(r)
    \/ \E s \in Stages : ProcessPendingRestart(s)

\* Input and output alone, one leading and one trailing stuffing packet,
\* bitrate always unknown, restart commands sent to one of the stages.
InitRestart ==
    \E o \in {x \in OptionsSet : /\ x.instuff_start = 1 /\ x.instuff_stop = 1
                                  /\ x.instuff_nullpkt = 0 /\ x.instuff_inpkt = 0
                                  /\ x.max_input_pkt = 0} :
       \E c \in 1 .. 2 : InitState(2, o, {0}, {c})

SpecRestart == InitRestart /\ [][NextRestart]_vars

\* The same where every thread which can take a step eventually takes it:
\* the threads of the stages, and the callers of restart() whose request is
\* completed. The timeout of waitWork() may be infinite, and nothing forces
\* a restart command or a call of setAbort().
FairThreads ==
    /\ WF_vars(InitAllBuffers)
    /\ WF_vars(InputIterate)
    /\ \A s \in AllStages :
          /\ WF_vars(WaitWorkCall(s))
          /\ WF_vars(WaitWorkResume(s))
          /\ WF_vars(StageIterate(s))
          /\ WF_vars(ProcessPendingRestart(s))
    /\ \A r \in Requests : WF_vars(RestartReturn(r))

SpecRestartFair == InitRestart /\ [][NextRestart]_vars /\ FairThreads

\* Input and output alone, no stuffing, an input of one packet, restart
\* commands sent to one of the stages, one step per mutex operation.
NextLocks ==
    \/ Next
    \/ \E s \in Stages : \E r \in Requests : RestartEnter(s, r)
    \/ \E r \in Requests : RestartLock1(r)
    \/ \E r \in Requests : RestartLock2(r)
    \/ \E r \in Requests : RestartCancelled(r)
    \/ \E r \in Requests : RestartDeclare(r)
    \/ \E r \in Requests : RestartLock3(r)
    \/ \E r \in Requests : RestartCheck(r)
    \/ \E r \in Requests : RestartWake(r)
    \/ \E s \in Stages : ProcessLock1(s)
    \/ \E s \in Stages : ProcessLock2(s)
    \/ \E s \in Stages : ProcessRestart(s)

InitLocks ==
    \E c \in 1 .. 2 :
       InitPipeline(2, [instuff_start |-> 0, instuff_stop |-> 0, instuff_nullpkt |-> 0,
                        instuff_inpkt |-> 0, max_input_pkt |-> 0, bitrate |-> 0],
                    {0}, {c}, {}, 1)

SpecLocks == InitLocks /\ [][NextLocks]_vars

\* Input and output alone, no stuffing, an input of one packet, restart
\* commands sent to one of the stages, where each of analyze(), getOptions()
\* and start() can fail during a restart.
InitOrder ==
    \E c \in 1 .. 2 :
       InitPipelineFailing(2, [instuff_start |-> 0, instuff_stop |-> 0, instuff_nullpkt |-> 0,
                               instuff_inpkt |-> 0, max_input_pkt |-> 0, bitrate |-> 0],
                           {0}, {c}, {}, 1, FailPoints)

SpecOrder == InitOrder /\ [][NextRestart]_vars

\* ------------------------------------------------------------------------
\* Windows of the stages
\* ------------------------------------------------------------------------

\* Buffer indexes of the window (_pkt_first, _pkt_cnt) of stage s, read
\* modulo the size of the buffer.
Slots(s) == { (pkt_first[s] + i) % BufCount : i \in 0 .. (pkt_cnt[s] - 1) }

RECURSIVE SumCount(_)
SumCount(n) == IF n = 0 THEN 0 ELSE pkt_cnt[n] + SumCount(n - 1)

\* C1: in every state after initAllBuffers, the windows of two distinct
\* stages do not overlap, no window is longer than the buffer and the sum of
\* the window counts does not exceed the size of the buffer.
C1_WindowDisjointness ==
    phase # "init" =>
        /\ \A s \in Stages : pkt_cnt[s] >= 0 /\ pkt_cnt[s] <= BufCount /\ pkt_first[s] \in 0 .. (BufCount - 1)
        /\ \A s \in Stages : \A u \in Stages : s # u => Slots(s) \cap Slots(u) = {}
        /\ SumCount(nstages) <= BufCount

\* Three stages own packets and one of the windows wraps around the end of the buffer.
C1_Witness ==
    /\ nstages = 3
    /\ \A s \in Stages : pkt_cnt[s] > 0
    /\ \E s \in Stages : pkt_first[s] + pkt_cnt[s] > BufCount

\* C2: after a successful initAllBuffers and any sequence of passPackets,
\* every buffer index is in the window of exactly one stage: the counts sum
\* to the size of the buffer and the window of each stage starts where the
\* window of its successor ends. initAllBuffers itself gives (0, n) to the
\* successor of the input, (n mod size, size - n) to the input and empty
\* windows to the others.
C2_OneOwner ==
    /\ [](phase = "run" =>
            /\ SumCount(nstages) = BufCount
            /\ \A s \in Stages :
                 pkt_first[s] = (pkt_first[ringNext(s)] + pkt_cnt[ringNext(s)]) % BufCount
            /\ \A i \in 0 .. (BufCount - 1) :
                 Cardinality({s \in Stages : i \in Slots(s)}) = 1)
    /\ [][phase = "init" /\ phase' = "run" =>
            \E n \in 1 .. BufCount :
                /\ pkt_first'[2] = 0 /\ pkt_cnt'[2] = n
                /\ pkt_first'[1] = n % BufCount /\ pkt_cnt'[1] = BufCount - n
                /\ \A s \in Stages : s > 2 => pkt_first'[s] = 0 /\ pkt_cnt'[s] = 0]_vars

\* The output released packets and the window of the input wraps around the
\* end of the buffer while the processor and the output own packets.
C2_Witness ==
    /\ phase = "run"
    /\ nstages = 3
    /\ pkt_first[1] + pkt_cnt[1] > BufCount
    /\ pkt_cnt[2] > 0
    /\ pkt_cnt[3] > 0
    /\ pkt_first[3] > 0

\* C3: for every stage but the input, the counts its predecessor gave to
\* passPackets (plus the preload of initAllBuffers for the successor of the
\* input) minus the counts it gave itself to passPackets is its current
\* window count: what the predecessor passed is what the stage received,
\* i.e. passed on or still owns.
C3_Conservation ==
    phase = "run" => \A s \in Stages : s # InputStage => handed[s] = pkt_cnt[s]

\* The processor passed packets to the output and received more from the input.
C3_Witness ==
    /\ phase = "run"
    /\ nstages = 3
    /\ pkt_first[2] > 0
    /\ pkt_cnt[2] > 0
    /\ pkt_cnt[3] > 0
    /\ pkt_first[3] > 0

\* The step is a call of passPackets by the thread of stage s: the thread
\* leaves the position where it holds the result of waitWork, and not by
\* the break of the input's loop on an abort, which calls nothing.
PassCall(s) ==
    /\ pc[s] = "got"
    /\ pc'[s] # "got"
    /\ ~(s = InputStage /\ loc[s].aborted)

\* The step is the call passPackets(count, b, end, ab) by the thread of stage s.
PassStep(s, count, b, end, ab) ==
    /\ PassCall(s)
    /\ count = handed[s] - handed'[s]
    /\ PassPackets(s, count, b, end, ab, pc'[s] = "idle")

\* C4: a passPackets(count, ...) step of stage s advances the window start
\* of s by count modulo the size of the buffer, takes count from its window
\* count, adds count to the window count of its successor and leaves the
\* window start of the successor and the windows of the other stages
\* unchanged.
C4_PassPacketsEffect ==
    [][\A s \in Stages :
          LET count == handed[s] - handed'[s]
          IN PassCall(s) =>
             /\ count \in 0 .. pkt_cnt[s]
             /\ pkt_first'[s] = (pkt_first[s] + count) % BufCount
             /\ pkt_cnt'[s] = pkt_cnt[s] - count
             /\ pkt_cnt'[ringNext(s)] = pkt_cnt[ringNext(s)] + count
             /\ pkt_first'[ringNext(s)] = pkt_first[ringNext(s)]
             /\ \A u \in Stages : u # s /\ u # ringNext(s) =>
                   pkt_first'[u] = pkt_first[u] /\ pkt_cnt'[u] = pkt_cnt[u]]_vars

\* Every passPackets step has arguments, and only passPackets steps have.
PassCallArgs ==
    [][\A s \in Stages :
          PassCall(s) <=> \E b \in bitrates \cup {tsp_bitrate[s]} : \E end \in BOOLEAN : \E ab \in BOOLEAN :
                             PassStep(s, handed[s] - handed'[s], b, end, ab)]_vars

\* The processor passed packets across the end of the buffer: its window
\* start wrapped to 0 while the input and the output own packets.
C4_Witness ==
    /\ phase = "run"
    /\ nstages = 3
    /\ pkt_first[2] = 0
    /\ pkt_first[3] > 0
    /\ pkt_cnt[3] > 0
    /\ pkt_cnt[1] > 0

\* C5: at every passPackets call of the main loop of the input stage, the
\* count is at most the current window count of the input stage and the
\* window start plus the count is at most the size of the buffer, whatever
\* the stuffing options, --max-input-packets, the window returned by
\* waitWork (a timeout included) and the packets the input plugin returns.
C5_InputPreconditions ==
    [][PassCall(InputStage) =>
          LET count == handed[InputStage] - handed'[InputStage]
          IN /\ count >= 0
             /\ count <= pkt_cnt[InputStage]
             /\ pkt_first[InputStage] + count <= BufCount]_vars

\* With interleaved stuffing and --max-input-packets, the input thread ended
\* after its trailing stuffing, having passed packets up to the end of the
\* buffer and gone on from its start.
C5_Witness ==
    /\ phase = "run"
    /\ options.instuff_inpkt > 0
    /\ options.instuff_nullpkt > 0
    /\ options.max_input_pkt > 0
    /\ options.instuff_stop > 0
    /\ inp.instuff_stop_remain = 0
    /\ inp.in_left < MaxInput
    /\ pkt_first[InputStage] = 0
    /\ pc[InputStage] = "done"
    /\ ~tsp_aborting[InputStage]
    /\ ~input_end[InputStage]
    /\ input_end[ringNext(InputStage)]

\* C6: waitWork returns only when the window count of the stage is not
\* zero, or its input_end flag is set, or the aborting flag of its successor
\* is set, or the wait timed out and handlePacketTimeout() declined to
\* continue; on a reported timeout the returned packet count is 0; a thread
\* awakened for another reason (a timeout accepted by the hook, the signal
\* of a restart) waits again.
C6_WaitWorkReturn ==
    /\ [][\A s \in Stages :
            (pc[s] # "got" /\ pc'[s] = "got") =>
               /\ \/ pkt_cnt[s] > 0
                  \/ input_end[s]
                  \/ tsp_aborting[ringNext(s)]
                  \/ pc[s] = "timedout" /\ loc'[s].timeout
               /\ loc'[s].timeout => (pc[s] = "timedout" /\ loc'[s].pkt_cnt = 0)]_vars
    /\ [][\A s \in Stages :
            (/\ pc[s] \in {"signalled", "timedout"}
             /\ pc'[s] # pc[s]
             /\ pkt_cnt[s] = 0 /\ ~input_end[s] /\ ~tsp_aborting[ringNext(s)])
            => \/ pc'[s] = "blocked"
               \/ pc[s] = "timedout" /\ pc'[s] = "got" /\ loc'[s].timeout]_vars

\* A thread waiting in waitWork was awakened by the signal of a restart
\* while its window is empty, its input has not ended and its successor is
\* not aborting.
C6_Witness ==
    \E s \in Stages :
        /\ pc[s] = "signalled"
        /\ restart[s]
        /\ requests[1].stage = s
        /\ pkt_cnt[s] = 0
        /\ ~input_end[s]
        /\ ~tsp_aborting[ringNext(s)]
        /\ ~tsp_aborting[s]

\* C7: when a stage which is not the output calls waitWork while the
\* aborting flag of its successor is set, waitWork returns without waiting,
\* with aborted = true, also when the window of the stage is empty and its
\* input has not ended.
C7_AbortedWithoutWait ==
    [][\A s \in Stages :
          (/\ s # OutputStage
           /\ pc[s] = "idle"
           /\ pc'[s] # "idle"
           /\ tsp_aborting[ringNext(s)])
          => (pc'[s] = "got" /\ loc'[s].aborted)]_vars

\* The processor got aborted = true from waitWork with an empty window and
\* no end of input, while the input is still running.
C7_Witness ==
    /\ nstages = 3
    /\ pc[2] = "got"
    /\ loc[2].aborted
    /\ ~loc[2].timeout
    /\ pkt_cnt[2] = 0
    /\ ~input_end[2]
    /\ tsp_aborting[3]
    /\ ~tsp_aborting[2]

\* C8: a passPackets call of the output stage, whose successor in the ring
\* is the input stage, leaves the stored bitrate and the input_end flag of
\* the input stage unchanged, whatever its bitrate and input_end arguments.
C8_NoWrapToInput ==
    [][PassCall(OutputStage) =>
          /\ bitrate'[InputStage] = bitrate[InputStage]
          /\ input_end'[InputStage] = input_end[InputStage]]_vars

\* C9: once the output stage is aborting, the waitWork of its predecessor
\* returns with aborted = true; the aborting flag of the input stage changes
\* only in a passPackets call of the input stage itself made while its own
\* successor is aborting (or by setAbort called on the input stage itself),
\* never because the output stage, its predecessor in the ring, aborts.
C9_AbortNonWrap ==
    /\ [][\A s \in Stages :
            (/\ ringNext(s) = OutputStage
             /\ tsp_aborting[OutputStage]
             /\ pc[s] \in {"idle", "signalled", "timedout"}
             /\ pc'[s] # pc[s])
            => (pc'[s] = "got" /\ loc'[s].aborted)]_vars
    /\ [][tsp_aborting'[InputStage] # tsp_aborting[InputStage] =>
            \/ SetAbort(InputStage)
            \/ PassCall(InputStage) /\ tsp_aborting[ringNext(InputStage)]]_vars

\* The output is aborting, the processor before it got aborted = true from
\* waitWork and the input, still running, is not aborting.
C9_Witness ==
    /\ nstages = 3
    /\ tsp_aborting[3]
    /\ ~tsp_aborting[2]
    /\ ~tsp_aborting[1]
    /\ pc[2] = "got"
    /\ loc[2].aborted
    /\ pc[1] = "got"
    /\ ~loc[1].aborted

\* The step is a call of setAbort on stage s, or a call of passPackets by
\* stage s which ends up aborted.
AbortCall(s) ==
    \/ SetAbort(s)
    \/ /\ PassCall(s)
       /\ \E b \in bitrates \cup {tsp_bitrate[s]} : \E end \in BOOLEAN : \E ab \in BOOLEAN :
             /\ PassAborted(s, ab)
             /\ PassStep(s, handed[s] - handed'[s], b, end, ab)

\* C10: a call of setAbort or of a passPackets which ends up aborted, by
\* stage s, sets the aborting flag of s, modifies the aborting flag of no
\* other stage and signals only the predecessor of s.
C10_OneHop ==
    [][\A s \in Stages :
          AbortCall(s) =>
             /\ tsp_aborting'[s]
             /\ \A u \in Stages : u # s => tsp_aborting'[u] = tsp_aborting[u]
             /\ \A u \in Stages : u # s /\ u # ringPrevious(s) => pc'[u] = pc[u]]_vars

\* C10, amended: such a call sets the aborting flag of s, modifies the
\* aborting flag of no other stage and awakens the predecessor of s when it
\* waits; the only other stage it can signal is the successor of s, and
\* only a passPackets does, when its count is positive or its input_end
\* argument is true.
C10_OneHopOrData ==
    [][\A s \in Stages :
          AbortCall(s) =>
             /\ tsp_aborting'[s]
             /\ \A u \in Stages : u # s => tsp_aborting'[u] = tsp_aborting[u]
             /\ pc[ringPrevious(s)] = "blocked" => pc'[ringPrevious(s)] = "signalled"
             /\ \A u \in Stages : (u # s /\ u # ringPrevious(s) /\ pc'[u] # pc[u]) =>
                   /\ u = ringNext(s)
                   /\ PassCall(s)
                   /\ \/ handed[s] - handed'[s] > 0
                      \/ input_end'[u]]_vars

\* The processor passed packets and aborted while the input and the output
\* were waiting: both were signalled, and only the processor is aborting.
C10_Witness ==
    /\ nstages = 3
    /\ pc[2] = "done"
    /\ tsp_aborting[2]
    /\ ~tsp_aborting[1]
    /\ ~tsp_aborting[3]
    /\ pc[1] = "signalled"
    /\ pc[3] = "signalled"
    /\ pkt_cnt[3] > 0
    /\ ~input_end[3]

\* ------------------------------------------------------------------------
\* Stream of the input executor
\* ------------------------------------------------------------------------

\* The input executor is over: initAllBuffers() failed or main() left its loop.
InputOver == phase = "failed" \/ pc[InputStage] = "done"

\* The input plugin delivered all its packets, all of them valid.
AllDelivered == inp.in_left = 0 /\ ~inp.in_sync_lost

\* 3 leading null packets, cycles of 2 null packets then 5 input packets
\* until the 11 input packets are exhausted, 2 trailing null packets.
ArithNullsFirst ==
    Packets("N", 3)
    \o Packets("N", 2) \o Packets("R", 5)
    \o Packets("N", 2) \o Packets("R", 5)
    \o Packets("N", 2) \o Packets("R", 1)
    \o Packets("N", 2)

\* The same with cycles of 5 input packets then 2 null packets.
ArithInputFirst ==
    Packets("N", 3)
    \o Packets("R", 5) \o Packets("N", 2)
    \o Packets("R", 5) \o Packets("N", 2)
    \o Packets("R", 1)
    \o Packets("N", 2)

\* The input plugin was never told to stop: it has not reported its end, no
\* packet was invalid and it still has packets to deliver.
InputCutShort == ~inp.in_ended /\ ~inp.in_sync_lost /\ inp.in_left > 0

\* C11: with leading stuffing 3, trailing stuffing 2, 2 null packets per 5
\* input packets and an input plugin which delivers exactly 11 packets and
\* then ends, the input executor passes downstream 3 null packets, then
\* cycles of (2 null packets, 5 input packets) until the input packets are
\* exhausted, then 2 null packets.
C11_StuffingArithmetic ==
    (InputOver /\ (AllDelivered \/ InputCutShort)) => stream = ArithNullsFirst

\* What the code does when it reads the plugin up to its last packet: each
\* cycle is 5 input packets followed by 2 null packets.
StuffingSequence ==
    (InputOver /\ AllDelivered) => stream = ArithInputFirst

\* The plugin delivered its 11 packets and the input executor ended.
StuffingSequenceReached == InputOver /\ AllDelivered /\ Len(stream) = 20

\* The input executor ended although the plugin still had valid packets.
StuffingCutShortReached == InputOver /\ InputCutShort

\* C12: once receiveAndValidate() has seen a packet without the sync byte,
\* every later production call of the input executor, receiveAndValidate()
\* or receiveAndStuff() with or without interleaved stuffing and whatever
\* the size of the window, returns 0 packets and does not call the receive
\* method of the plugin (the plugin keeps the packets it has left, valid or
\* not, and is not asked whether it has ended).
C12_SyncLossSticky ==
    inp.in_sync_lost =>
        \A w \in 0 .. MaxWindow + 1 :
            /\ \A r \in ReceiveAndValidate(inp, w) :
                   /\ r.count = 0
                   /\ r.st.in_left = inp.in_left
                   /\ r.st.in_ended = inp.in_ended
                   /\ r.st.in_sync_lost
            /\ \A r \in ReceiveAndStuff(inp, w) :
                   /\ r.ret = 0
                   /\ r.st.in_left = inp.in_left
                   /\ r.st.in_ended = inp.in_ended
                   /\ r.st.in_sync_lost

\* Synchronization was lost after a valid packet while the plugin had more
\* packets, and the next production call ended the input executor.
C12_Witness ==
    /\ inp.in_sync_lost
    /\ inp.in_left > 0
    /\ \E i \in 1 .. Len(stream) : stream[i] = "R"
    /\ InputOver
    /\ options.instuff_inpkt > 0

\* ------------------------------------------------------------------------
\* Restart of a plugin
\* ------------------------------------------------------------------------

\* The step is processPendingRestart() of stage s, with a pending restart.
ProcessCall(s) == restart[s] /\ restart_data[s] # 0 /\ ~restart'[s]

RestartWarning == "warning: failed to restart plugin, restarting with previous parameters"

\* C13: when the plugin of a stage runs with arguments A and a restart with
\* new arguments B is processed, where the start with B fails and the start
\* with A succeeds, the plugin is left started with A, the request is
\* completed, processPendingRestart() sent the warning and nothing more
\* severe to the report of the request, and it returns true.
C13_RestartFallback ==
    [][\A s \in Stages :
         LET r == restart_data[s]
         IN (/\ ProcessCall(s)
             /\ ~requests[r].same_args
             /\ plugin'[s].calls = << [args |-> requests[r].args, ok |-> FALSE],
                                      [args |-> plugin[s].args, ok |-> TRUE] >>)
            => /\ plugin'[s].args = plugin[s].args
               /\ plugin'[s].started
               /\ plugin'[s].success
               /\ requests'[r].completed
               /\ RestartWarning \in requests'[r].report
               /\ requests'[r].report \ requests[r].report
                     \subseteq {"verbose: restarting plugin", RestartWarning}
               /\ ~restart'[s] /\ restart_data'[s] = 0]_vars

\* A restart with "B" failed and the plugin runs again with "A".
C13_Witness ==
    \E s \in Stages : \E r \in Requests :
        /\ requests[r].stage = s
        /\ requests[r].completed
        /\ requests[r].args = "B"
        /\ RestartWarning \in requests[r].report
        /\ plugin[s].calls = << [args |-> "B", ok |-> FALSE], [args |-> "A", ok |-> TRUE] >>
        /\ plugin[s].args = "A" /\ plugin[s].started /\ plugin[s].success

\* ------------------------------------------------------------------------
\* Input bitrate
\* ------------------------------------------------------------------------

\* The step is an evaluation of getBitrate().
GetBitrateStep == inp'.evaluation.n = inp.evaluation.n + 1

\* Neither the command line nor the input plugin gives a bitrate.
NoGivenBitrate == options.bitrate = 0 /\ inp.plugin_bitrate = 0

\* C14: once an evaluation of getBitrate() has selected the DTS analyzer,
\* the selection is never dropped, and every later evaluation made without
\* a bitrate from the command line or from the plugin returns the bitrate of
\* the DTS analyzer, also when the PCR analyzer has become valid.
C14_BitrateSticky ==
    [][/\ inp.use_dts_analyzer => inp'.use_dts_analyzer
       /\ (GetBitrateStep /\ inp.use_dts_analyzer /\ NoGivenBitrate)
            => inp'.evaluation.bitrate = inp.dts_analyzer.bitrate188]_vars

\* An evaluation which found the DTS analyzer selected and the PCR analyzer
\* valid, with another bitrate than the DTS analyzer, returned the bitrate
\* of the DTS analyzer.
C14_Witness ==
    /\ inp.evaluation.n >= 2
    /\ inp.evaluation.was_dts /\ inp.evaluation.pcr_valid
    /\ inp.pcr_analyzer.valid /\ inp.pcr_analyzer.bitrate188 = 10
    /\ inp.dts_analyzer.bitrate188 = 20
    /\ inp.evaluation.bitrate = 20
    /\ NoGivenBitrate

\* The requests of restart of stage s which are not completed.
Pending(s) == {r \in Requests : /\ requests[r].caller = "waiting"
                                /\ requests[r].stage = s
                                /\ ~requests[r].completed}

\* The step is a call of restart() on stage s, up to the release of the
\* global mutex.
RestartCall(s) == restart_data'[s] # 0 /\ restart_data'[s] # restart_data[s]

RestartInterrupted == "error: restart interrupted by another concurrent restart"

\* C15: a stage has at most one restart request which is not completed, the
\* one attached to it; a call of restart() on a stage which has a pending
\* request marks that older request completed, sends it the error "restart
\* interrupted by another concurrent restart", leaves its caller free to
\* return and attaches the new request in the same step, so that the
\* thread of the stage never processes the older one (the plugin is not
\* touched and the older request gets no message of processPendingRestart).
C15_RestartPreemption ==
    /\ [](\A s \in Stages :
            /\ Pending(s) \subseteq {restart_data[s]}
            /\ restart[s] <=> restart_data[s] # 0)
    /\ [][\A s \in Stages :
            LET old == restart_data[s]
            IN (RestartCall(s) /\ old # 0)
               => /\ requests'[old].completed
                  /\ requests'[old].caller = "waiting"
                  /\ requests'[old].report = requests[old].report \cup {RestartInterrupted}
                  /\ "verbose: restarting plugin" \notin requests'[old].report
                  /\ ~requests'[restart_data'[s]].completed
                  /\ requests'[restart_data'[s]].stage = s
                  /\ restart'[s]
                  /\ plugin' = plugin]_vars

\* The first request was interrupted by the second one, which is pending.
C15_Witness ==
    \E s \in Stages :
        /\ restart_data[s] = 2
        /\ Pending(s) = {2}
        /\ requests[1].stage = s
        /\ requests[1].caller = "waiting"
        /\ requests[1].completed
        /\ requests[1].report = {RestartInterrupted}

\* The stages a request of restart is attached to.
Attached(r) == {s \in Stages : restart_data[s] = r}

\* C16: the completion flag of a restart request is set at most once, by one
\* step which signals its condition once and which is either a restart()
\* which preempts it or the processPendingRestart() of its stage, never
\* both; a completed request is detached from its stage, so that it is
\* neither completed nor signalled again, and its flag stays set until its
\* caller returns; processPendingRestart() completes the request whether the
\* plugin restarted or not. (That a request is completed at all is the
\* subject of C17.)
C16_CompletedOnce ==
    /\ [](\A r \in Requests :
            /\ requests[r].signals = (IF requests[r].completed THEN 1 ELSE 0)
            /\ requests[r].completed => Attached(r) = {}
            /\ requests[r].caller # "waiting" => (~requests[r].completed /\ Attached(r) = {}))
    /\ [][\A r \in Requests :
            LET s == requests[r].stage
            IN /\ (requests[r].completed /\ requests'[r].caller = "waiting")
                    => (requests'[r].completed /\ requests'[r].signals = requests[r].signals)
               /\ (~requests[r].completed /\ requests'[r].completed)
                    => /\ requests[r].caller = "waiting"
                       /\ restart_data[s] = r
                       /\ requests'[r].signals = 1
                       /\ (RestartCall(s) /\ ~ProcessCall(s)) \/ (ProcessCall(s) /\ ~RestartCall(s))
               /\ (requests[r].caller = "waiting" /\ restart_data[s] = r /\ ProcessCall(s))
                    => requests'[r].completed]_vars

\* One request was completed by a preempting restart() and the other one by
\* a processPendingRestart() which failed to restart the plugin.
C16_Witness ==
    \E s \in Stages :
        /\ requests[1].stage = s /\ requests[2].stage = s
        /\ requests[1].completed /\ requests[1].signals = 1
        /\ RestartInterrupted \in requests[1].report
        /\ requests[2].completed /\ requests[2].signals = 1
        /\ ~plugin[s].success

\* The thread of stage s is in its main loop, about to call waitWork() or
\* blocked in it: a whole iteration is still to come.
Running(s) == phase = "run" /\ pc[s] \in {"idle", "blocked", "signalled"}

\* C17: under fair scheduling, a restart request attached to a stage whose
\* thread is running, between two iterations or blocked in waitWork(), is
\* eventually completed, so that its caller returns.
C17_RestartLiveness ==
    \A r \in Requests :
        (/\ requests[r].caller = "waiting"
         /\ ~requests[r].completed
         /\ Running(requests[r].stage))
        ~> (requests[r].caller # "waiting" \/ requests[r].completed)

\* ------------------------------------------------------------------------
\* Mutexes of the restart
\* ------------------------------------------------------------------------

\* The mutexes thread t holds.
Held(t) == {m \in MutexIds : mutex[m] = t}

\* The mutex thread t is about to acquire, if any: the thread of a stage
\* takes _global_mutex in waitWork(), passPackets() and
\* processPendingRestart(), then the mutex of the pending RestartData; the
\* caller of restart() takes _global_mutex, then the mutex of the pending
\* RestartData, then, _global_mutex released, the mutex of its own.
Wants(t) ==
    IF t \in Stages
    THEN IF pc[t] = "process1" THEN {restart_data[t]}
         ELSE IF phase = "run" /\ pc[t] \in {"idle", "signalled", "timedout", "got"}
         THEN {GlobalMutex}
         ELSE {}
    ELSE UNION { IF t # Caller(r) THEN {}
                 ELSE IF requests[r].caller = "enter" THEN {GlobalMutex}
                 ELSE IF requests[r].caller = "lock1"
                 THEN {restart_data[requests[r].stage]} \ {0}
                 ELSE IF requests[r].caller \in {"lock3", "woken"} THEN {r}
                 ELSE {} : r \in Requests }

\* The threads which hold the mutex thread t is about to acquire.
Blockers(t) == { mutex[m] : m \in Wants(t) } \ {Free, t}

\* The threads thread t waits for, directly or not.
RECURSIVE WaitsFor(_, _)
WaitsFor(T, k) ==
    IF k = 0 THEN T
    ELSE WaitsFor(T \cup UNION { Blockers(u) : u \in T }, k - 1)

CyclicWait == \E t \in Threads : t \in WaitsFor(Blockers(t), Cardinality(Threads))

\* C18: the caller of restart() which waits for the completion of its
\* request holds no mutex but the one of its request, never _global_mutex;
\* a thread acquires _global_mutex only when it holds no mutex, so that a
\* thread which holds both acquired _global_mutex first; no reachable state
\* has a cycle of threads which wait for a mutex held by the next one, with
\* the threads of the stages and two concurrent callers of restart().
C18_LockDiscipline ==
    /\ [](\A r \in Requests :
            requests[r].caller \in {"lock3", "check", "waiting", "woken"}
               => /\ Held(Caller(r)) \subseteq {r}
                  /\ requests[r].caller = "check" <=> mutex[r] = Caller(r))
    /\ [][\A t \in Threads :
            (mutex'[GlobalMutex] = t /\ mutex[GlobalMutex] # t) => Held(t) = {}]_vars
    /\ [][\A t \in Threads : \A m \in Requests :
            (mutex'[m] = t /\ mutex[m] # t /\ t # Caller(m)) => mutex[GlobalMutex] = t]_vars
    /\ []~CyclicWait

\* The thread of a stage holds both mutexes in processPendingRestart()
\* while the caller of the request waits for the mutex of its request and
\* another caller of restart() waits for _global_mutex.
C18_Witness ==
    \E s \in Stages : \E r \in Requests : \E q \in Requests :
        /\ pc[s] = "process2"
        /\ Held(s) = {GlobalMutex, r}
        /\ requests[r].caller \in {"lock3", "woken"}
        /\ Blockers(Caller(r)) = {s}
        /\ requests[q].caller = "enter"
        /\ Blockers(Caller(q)) = {s}

\* ------------------------------------------------------------------------
\* Order of the packets
\* ------------------------------------------------------------------------

\* The slots of a window, in the order of the buffer modulo its size.
WindowSeq(first, cnt) == [i \in 1 .. cnt |-> (first + i - 1) % BufCount]

\* C19: the window a thread is handling is the front of the window of its
\* stage; a passPackets(count, ...) step of stage s removes the first count
\* slots of the window of s and appends them, in the same order, to the end
\* of the window of its successor, whose slots stay consecutive modulo the
\* size of the buffer: no slot overtakes another one.
C19_FifoHandoff ==
    /\ [](phase = "run" =>
            \A s \in Stages :
               /\ (pkt_first[s] + pkt_cnt[s]) % BufCount = pkt_first[ringPrevious(s)]
               /\ pc[s] = "got" =>
                     /\ loc[s].pkt_first = pkt_first[s]
                     /\ loc[s].pkt_cnt <= pkt_cnt[s])
    /\ [][\A s \in Stages :
            LET count == handed[s] - handed'[s]
                next == ringNext(s)
                mine == WindowSeq(pkt_first[s], pkt_cnt[s])
            IN PassCall(s) =>
                 /\ count \in 0 .. loc[s].pkt_cnt
                 /\ WindowSeq(pkt_first'[s], pkt_cnt'[s]) = SubSeq(mine, count + 1, pkt_cnt[s])
                 /\ WindowSeq(pkt_first'[next], pkt_cnt'[next])
                      = WindowSeq(pkt_first[next], pkt_cnt[next]) \o SubSeq(mine, 1, count)]_vars

\* With a processor, packets went round the buffer: the window of the
\* processor crosses the end of the buffer and the output passed packets.
C19_Witness ==
    /\ nstages = 3
    /\ phase = "run"
    /\ pkt_cnt[2] >= 2
    /\ pkt_first[2] + pkt_cnt[2] > BufCount
    /\ pkt_first[OutputStage] > 0
    /\ pkt_cnt[OutputStage] > 0

\* ------------------------------------------------------------------------
\* Leading stuffing
\* ------------------------------------------------------------------------

\* The input plugin was able to deliver a valid packet: it did, or it was
\* never asked for one.
CanDeliver == (\E i \in 1 .. Len(stream) : stream[i] = "R") \/ InputCutShort

\* C20: whatever the sizes of the windows of the production calls, when the
\* input plugin can deliver a valid packet, the stream the input executor
\* passes downstream begins with instuff_start null packets followed by the
\* first packet of the plugin; the count of leading null packets still to
\* add never increases.
C20_LeadingStuffing ==
    /\ []((InputOver /\ CanDeliver) =>
            /\ Len(stream) > options.instuff_start
            /\ \A i \in 1 .. options.instuff_start : stream[i] = "N"
            /\ stream[options.instuff_start + 1] = "R")
    /\ [][inp'.instuff_start_remain <= inp.instuff_start_remain]_vars

\* ------------------------------------------------------------------------
\* Interleaved and trailing stuffing
\* ------------------------------------------------------------------------

\* The trailing null packets already added to the stream.
TrailingDone == options.instuff_stop - inp.instuff_stop_remain

\* The packet at position i of a stream with leading stuffing and cycles of
\* instuff_inpkt input packets followed by instuff_nullpkt null packets.
Interleaved(i) ==
    IF i <= options.instuff_start THEN "N"
    ELSE IF (i - options.instuff_start - 1) % (options.instuff_inpkt + options.instuff_nullpkt)
            < options.instuff_inpkt
    THEN "R" ELSE "N"

\* C21: with instuff_nullpkt null packets per instuff_inpkt input packets,
\* the stream passed before the trailing stuffing is, after the leading
\* stuffing, made of runs of exactly instuff_inpkt input packets separated
\* by runs of exactly instuff_nullpkt null packets, whatever the windows
\* and the short reads which cut the runs: a run cut by the end of a
\* production call is resumed by the next one.
C21_InterleavedStuffing ==
    options.instuff_inpkt > 0 =>
        /\ TrailingDone <= Len(stream)
        /\ \A i \in 1 .. Len(stream) - TrailingDone : stream[i] = Interleaved(i)
        /\ \A i \in Len(stream) - TrailingDone + 1 .. Len(stream) : stream[i] = "N"

\* With windows of at most 6 packets, the first run of 5 input packets was
\* cut by the end of a window, and the second run of 2 null packets is cut
\* after its first packet.
C21_Witness ==
    /\ options.instuff_inpkt = 5 /\ options.instuff_nullpkt = 2
    /\ Len(stream) = 16
    /\ inp.instuff_nullpkt_remain = 1
    /\ ~inp.plugin_completed
    /\ stream[16] = "N" /\ stream[15] = "R"

\* The step is an iteration of the input's loop after waitWork() reported
\* neither an abort nor a timeout.
InputProduction ==
    /\ PassCall(InputStage)
    /\ ~loc[InputStage].timeout

\* The step is a call passPackets(count, bitrate, true, false) of the input.
InputEndPassed ==
    PassStep(InputStage, handed[InputStage] - handed'[InputStage],
             tsp_bitrate'[InputStage], TRUE, FALSE)

\* C22: without abort or timeout, the input executor adds trailing null
\* packets only once its plugin is completed, never more than instuff_stop
\* of them, all at the end of the stream and all passed to the successor;
\* an iteration passes input_end = true exactly when, at its passPackets,
\* the plugin is completed and no trailing null packet remains, so that the
\* loop ends with exactly instuff_stop trailing null packets passed, in one
\* or several iterations; and the iteration where waitWork() reports an
\* abort adds and passes nothing.
C22_TrailingStuffing ==
    /\ [](/\ TrailingDone \in 0 .. options.instuff_stop
          /\ TrailingDone <= Len(stream)
          /\ (TrailingDone > 0 => inp.plugin_completed)
          /\ \A i \in Len(stream) - TrailingDone + 1 .. Len(stream) : stream[i] = "N")
    /\ [][InputProduction =>
             /\ handed[InputStage] - handed'[InputStage] = Len(stream') - Len(stream)
             /\ inp.plugin_completed =>
                   /\ inp'.plugin_completed
                   /\ Len(stream') - Len(stream)
                        = inp.instuff_stop_remain - inp'.instuff_stop_remain
             /\ InputEndPassed <=> inp'.plugin_completed /\ inp'.instuff_stop_remain = 0
             /\ InputEndPassed <=> pc'[InputStage] = "done"]_vars
    /\ [][pc[InputStage] = "got" /\ loc[InputStage].aborted /\ pc'[InputStage] # "got" =>
             /\ inp' = inp
             /\ stream' = stream
             /\ handed'[InputStage] = handed[InputStage]
             /\ pc'[InputStage] = "done"
             /\ UNCHANGED <<pkt_first, pkt_cnt, input_end>>]_vars

\* The plugin reported the end of its input and the loop of the input ended
\* after its 2 trailing null packets, passed one per iteration.
C22_Witness ==
    /\ options.instuff_stop = 2 /\ options.max_input_pkt = 1
    /\ inp.in_ended
    /\ pc[InputStage] = "done"
    /\ inp.instuff_stop_remain = 0
    /\ Len(stream) >= 3
    /\ stream[Len(stream)] = "N" /\ stream[Len(stream) - 1] = "N"
    /\ stream[Len(stream) - 2] = "R"
    /\ \A s \in Stages : ~tsp_aborting[s]

\* The input stopped on an abort of its successor with trailing null
\* packets still to add.
C22_AbortWitness ==
    /\ pc[InputStage] = "done"
    /\ inp.plugin_completed
    /\ inp.instuff_stop_remain > 0
    /\ ~input_end[ringNext(InputStage)]

\* ------------------------------------------------------------------------
\* Completion of the input plugin
\* ------------------------------------------------------------------------

\* The input executor stopped reading its plugin: main() set
\* plugin_completed or initAllBuffers() returned false.
TreatedAsCompleted == inp.plugin_completed \/ phase = "failed"

\* C23: the input executor treats its plugin as completed only if a call
\* of the plugin's receive() with a window of at least one packet returned
\* no packet or the synchronization was lost, whatever the stuffing options
\* and the windows offered to the production calls.
C23_CompletedOnlyAtEnd == TreatedAsCompleted => inp.in_ended \/ inp.in_sync_lost

\* ------------------------------------------------------------------------
\* Independence from the windows
\* ------------------------------------------------------------------------

\* The runs of the input executor alone from the state st with the stream
\* str already passed: the (final stream, final state) of every sequence of
\* production calls of main(), with every window of `windows` and every
\* short read, up to the iteration which passes input_end.
RECURSIVE MainRuns(_, _)
MainRuns(st, str) ==
    UNION { UNION { IF r.input_end
                    THEN { [stream |-> str \o r.pkts, st |-> r.st] }
                    ELSE MainRuns(r.st, str \o r.pkts)
                    : r \in MainReceive(st, w) }
            : w \in windows }

\* The same from the construction: the production call of initAllBuffers(),
\* then main() when initAllBuffers() did not fail.
StartedRuns(st) ==
    UNION { UNION { IF r.ret = 0 THEN {} ELSE MainRuns(r.st, r.pkts)
                    : r \in ReceiveAndStuff(st, w) }
            : w \in windows }

\* The run ended after the plugin delivered all its packets, all valid,
\* and reported the end of its input.
WholeInput(run) == run.st.in_left = 0 /\ run.st.in_ended /\ ~run.st.in_sync_lost

\* C24: with the same stuffing options and the same packets delivered by
\* the input plugin, the stream passed by the input executor is the same
\* whatever the windows, max_input_pkt and the short reads of the plugin
\* which split the work into production calls.
C24_ChunkingIndependence ==
    phase = "init" =>
        \A a, b \in { run \in StartedRuns(inp) : WholeInput(run) } : a.stream = b.stream

\* ------------------------------------------------------------------------
\* Validation of the packets of one read
\* ------------------------------------------------------------------------

\* Number of packets received from the input plugin in the sequence s.
RECURSIVE InputPackets(_)
InputPackets(s) ==
    IF s = << >> THEN 0 ELSE (IF Head(s) = "R" THEN 1 ELSE 0) + InputPackets(Tail(s))

\* C25: when a call of receive() returns k packets of which the first one
\* without sync byte is at position n < k, receiveAndValidate() returns n,
\* counts the n packets before it as plugin packets and feeds them to the
\* analyzers, and neither counts nor feeds the packet n and the following
\* ones; the packets passed downstream are the counted ones only.
C25_SyncValidation ==
    /\ ~inp.in_sync_lost =>
          \A max_packets \in 1 .. BufCount :
            \A r \in PluginReceive(inp.in_left, max_packets) :
              r.bad < r.count =>
                /\ ReceiveAndValidate(inp, max_packets) # {}
                /\ ValidateRead(inp, max_packets, r) \in ReceiveAndValidate(inp, max_packets)
                /\ LET v == ValidateRead(inp, max_packets, r)
                   IN /\ v.count = r.bad
                      /\ v.st.plugin_packets = inp.plugin_packets + r.bad
                      /\ v.st.analyzed = inp.analyzed + r.bad
                      /\ v.st.in_sync_lost
                      /\ v.st.in_left = inp.in_left - r.count
    /\ inp.plugin_packets = InputPackets(stream)
    /\ inp.analyzed = inp.plugin_packets

\* A single read returned the 3 packets of the plugin, the second one
\* without sync byte: one packet is counted and passed, two are dropped.
C25_Witness ==
    /\ inp.in_sync_lost
    /\ ~inp.plugin_completed
    /\ inp.in_left = 0
    /\ inp.plugin_packets = 1
    /\ inp.analyzed = 1
    /\ InputPackets(stream) = 1
    /\ phase = "alone"

\* ------------------------------------------------------------------------
\* End of the input on a loss of synchronization
\* ------------------------------------------------------------------------

\* C26: once the synchronization is lost, an iteration of the input's loop
\* (without abort or timeout reported by waitWork) passes no more input
\* packet, completes the plugin, adds the trailing null packets as after
\* an end of input and calls passPackets with aborted = false, with
\* input_end = true when no trailing null packet remains, which ends the
\* loop; the aborting flag of the input is set only by setAbort() or when
\* its successor is aborting, never by the loss of synchronization.
C26_SyncLossEndsInput ==
    /\ [][InputProduction /\ inp.in_sync_lost =>
             /\ inp'.plugin_completed
             /\ inp'.in_left = inp.in_left
             /\ InputPackets(stream') = InputPackets(stream)
             /\ Len(stream') - Len(stream)
                  = inp.instuff_stop_remain - inp'.instuff_stop_remain
             /\ PassStep(InputStage, handed[InputStage] - handed'[InputStage],
                         tsp_bitrate'[InputStage], inp'.instuff_stop_remain = 0, FALSE)
             /\ pc'[InputStage] = "done" <=> inp'.instuff_stop_remain = 0]_vars
    /\ [][InputProduction /\ inp'.in_sync_lost =>
             tsp_aborting' = tsp_aborting \/ tsp_aborting[ringNext(InputStage)]]_vars

\* The input lost the synchronization after a valid packet, with packets
\* left in the plugin, passed its trailing null packet and input_end, and
\* no stage is aborting.
C26_Witness ==
    /\ inp.in_sync_lost /\ ~inp.in_ended
    /\ inp.plugin_packets >= 1
    /\ inp.in_left >= 1
    /\ options.instuff_stop = 1 /\ inp.instuff_stop_remain = 0
    /\ pc[InputStage] = "done"
    /\ input_end[ringNext(InputStage)]
    /\ stream[Len(stream)] = "N"
    /\ \A s \in Stages : ~tsp_aborting[s]

\* ------------------------------------------------------------------------
\* Priority of the PCR analyzer over the DTS analyzer
\* ------------------------------------------------------------------------

\* C28: without bitrate from the command line or from the plugin, an
\* evaluation of getBitrate() returns the bitrate of the PCR analyzer when
\* it is valid and the DTS analyzer was not selected before, and does not
\* select the DTS analyzer then; the DTS analyzer becomes selected only by
\* such an evaluation which finds the PCR analyzer not valid and the DTS
\* analyzer valid; and the evaluation returns 0 when no analyzer is valid
\* and the DTS analyzer was never selected.
C28_EstimatorPriority ==
    /\ [][GetBitrateStep /\ NoGivenBitrate =>
             /\ (inp.pcr_analyzer.valid /\ ~inp.use_dts_analyzer) =>
                   /\ inp'.evaluation.bitrate = inp.pcr_analyzer.bitrate188
                   /\ ~inp'.use_dts_analyzer
             /\ (~inp.pcr_analyzer.valid /\ ~inp.dts_analyzer.valid /\ ~inp.use_dts_analyzer) =>
                   /\ inp'.evaluation.bitrate = 0
                   /\ ~inp'.use_dts_analyzer]_vars
    /\ [][~inp.use_dts_analyzer /\ inp'.use_dts_analyzer =>
             /\ GetBitrateStep
             /\ NoGivenBitrate
             /\ ~inp.pcr_analyzer.valid
             /\ inp.dts_analyzer.valid
             /\ inp'.evaluation.bitrate = inp.dts_analyzer.bitrate188]_vars

\* An evaluation found both analyzers valid, with different bitrates, and
\* the DTS analyzer not selected: it returned the bitrate of the PCR
\* analyzer and did not select the DTS analyzer.
C28_Witness ==
    /\ NoGivenBitrate
    /\ inp.evaluation.n >= 1
    /\ inp.evaluation.pcr_valid /\ ~inp.evaluation.was_dts
    /\ inp.pcr_analyzer.valid /\ inp.pcr_analyzer.bitrate188 = 10
    /\ inp.dts_analyzer.valid /\ inp.dts_analyzer.bitrate188 = 20
    /\ inp.evaluation.bitrate = 10
    /\ ~inp.use_dts_analyzer

\* ------------------------------------------------------------------------
\* Termination flags
\* ------------------------------------------------------------------------

\* C29: once the buffers are initialized, no step of waitWork(),
\* passPackets(), setAbort(), restart() or processPendingRestart() of any
\* stage clears the aborting flag or the input_end flag of a stage.
C29_StickyFlags ==
    [][phase = "run" =>
         \A s \in Stages :
            /\ tsp_aborting[s] => tsp_aborting'[s]
            /\ input_end[s] => input_end'[s]]_vars

\* Both threads ended with the aborting flag of their stage set, the output
\* with its input_end flag set as well and a restart processed.
C29_Witness ==
    /\ nstages = 2
    /\ tsp_aborting[2] /\ input_end[2]
    /\ tsp_aborting[1]
    /\ plugin[2].calls # << >>
    /\ pc[2] = "done" /\ pc[1] = "done"

\* ------------------------------------------------------------------------
\* Timeout of the input
\* ------------------------------------------------------------------------

\* The step is the iteration of the input's loop which follows a return of
\* waitWork() with timeout = true.
InputTimeoutStep ==
    /\ pc[InputStage] = "got"
    /\ loc[InputStage].timeout
    /\ pc'[InputStage] # "got"

\* The iteration reads nothing and ends the loop by the single call
\* passPackets(0, _tsp_bitrate, true, false): the successor gets input_end
\* and the aborting flag of the input is set only if the successor is
\* aborting.
TimeoutPass ==
    /\ inp' = inp
    /\ stream' = stream
    /\ tsp_bitrate' = tsp_bitrate
    /\ PassStep(InputStage, 0, tsp_bitrate[InputStage], TRUE, FALSE)
    /\ handed' = handed
    /\ input_end'[ringNext(InputStage)]
    /\ tsp_aborting' = tsp_aborting \/ tsp_aborting[ringNext(InputStage)]
    /\ pc'[InputStage] = "done"

\* The iteration ends the loop without calling passPackets.
TimeoutBreak ==
    /\ inp' = inp
    /\ stream' = stream
    /\ pc'[InputStage] = "done"
    /\ UNCHANGED <<pkt_first, pkt_cnt, input_end, bitrate, tsp_aborting, tsp_bitrate, handed>>

\* Once its loop is left, the input thread reads and passes nothing.
InputStopped ==
    pc[InputStage] = "done" =>
        /\ pc'[InputStage] = "done"
        /\ inp' = inp
        /\ stream' = stream
        /\ pkt_first'[InputStage] = pkt_first[InputStage]
        /\ handed'[InputStage] >= handed[InputStage]

\* C30 as stated: when waitWork() reports a timeout, the input reads no
\* more packet, calls passPackets once with count 0, input_end = true and
\* aborted = false, and leaves its loop.
C30_TimeoutAlwaysPasses ==
    [][/\ InputTimeoutStep => TimeoutPass
       /\ InputStopped]_vars

\* C30: when waitWork() reports a timeout and no abort, the input reads no
\* more packet, calls passPackets once with count 0, input_end = true and
\* aborted = false, and leaves its loop; when waitWork() reports a timeout
\* and an abort of the successor, the input leaves its loop without reading
\* and without calling passPackets.
C30_TimeoutReaction ==
    [][/\ (InputTimeoutStep /\ ~loc[InputStage].aborted) => TimeoutPass
       /\ (InputTimeoutStep /\ loc[InputStage].aborted) => TimeoutBreak
       /\ InputStopped]_vars

\* The input ended on a timeout with packets left in its plugin: its
\* successor has input_end and no stage is aborting.
C30_Witness ==
    /\ pc[InputStage] = "done"
    /\ ~inp.plugin_completed
    /\ inp.in_left > 0
    /\ input_end[ringNext(InputStage)]
    /\ \A s \in Stages : ~tsp_aborting[s]

\* waitWork() reported a timeout and an abort of the successor together.
C30_TimeoutAndAbort ==
    /\ pc[InputStage] = "got"
    /\ loc[InputStage].timeout
    /\ loc[InputStage].aborted

\* ------------------------------------------------------------------------
\* Wake-up of a stage waiting in waitWork()
\* ------------------------------------------------------------------------

\* The thread of stage s is about to call waitWork() or inside it.
InWaitWork(s) == phase = "run" /\ pc[s] \in {"idle", "blocked", "signalled", "timedout"}

\* The step is a return of waitWork() in stage s.
WaitReturn(s) == pc[s] # "got" /\ pc'[s] = "got"

\* A thread is never left in waitCondition() without a pending signal while
\* the condition of the wait loop is false.
NoSleepOnWork == \A s \in Stages : pc[s] = "blocked" => WaitLoop(s, FALSE)

\* waitWork() reports the abort of the successor of a stage which is not
\* the output.
ReturnsAbort(s) ==
    loc'[s].aborted <=> (s # OutputStage /\ tsp_aborting[ringNext(s)])

\* waitWork() returns the packets and the end of input which are there.
ReturnsWork(s) ==
    /\ pkt_cnt[s] > 0 => loc'[s].pkt_cnt >= 1
    /\ (pkt_cnt[s] = 0 /\ input_end[s]) => loc'[s].input_end

\* A stage whose wait condition is false leaves waitWork().
WaitEnds ==
    \A s \in AllStages :
        (s \in Stages /\ InWaitWork(s) /\ ~WaitLoop(s, FALSE)) ~> (pc[s] = "got")

\* C31 as stated: a stage to which packets or the end of input were passed,
\* or whose successor is aborting, is never left waiting and its waitWork()
\* returns the packets (count >= 1), input_end or aborted accordingly.
C31_NoLostWakeup ==
    /\ []NoSleepOnWork
    /\ [][\A s \in Stages : WaitReturn(s) => ReturnsAbort(s) /\ ReturnsWork(s)]_vars
    /\ WaitEnds

\* C31: the same, where a return of waitWork() on a timeout reports the
\* timeout with no packet and, of the end of input, only the one of an
\* empty window, whatever was passed to the stage in the meantime; the
\* abort of the successor is reported in every case.
C31_NoLostWakeupButTimeout ==
    /\ []NoSleepOnWork
    /\ [][\A s \in Stages :
            WaitReturn(s) =>
               /\ ReturnsAbort(s)
               /\ ~loc'[s].timeout => ReturnsWork(s)
               /\ loc'[s].timeout =>
                     /\ pc[s] = "timedout"
                     /\ loc'[s].pkt_cnt = 0
                     /\ loc'[s].input_end <=> (input_end[s] /\ pkt_cnt[s] = 0)]_vars
    /\ WaitEnds

\* The processor was blocked in waitWork() when its predecessor passed
\* packets to it: it is awakened with packets in its window.
C31_Witness ==
    /\ nstages = 3
    /\ pc[2] = "signalled"
    /\ pkt_cnt[2] > 0
    /\ ~tsp_aborting[3]

\* The wait of the processor timed out and packets were passed to it
\* before it returned from waitWork().
C31_TimeoutRace ==
    /\ nstages = 3
    /\ pc[2] = "timedout"
    /\ pkt_cnt[2] > 0

\* ------------------------------------------------------------------------
\* The output and the abort of the input
\* ------------------------------------------------------------------------

\* The step is a call of passPackets with aborted = ab by the output thread.
OutputPass(ab) ==
    \E b \in bitrates : \E end \in BOOLEAN :
        PassStep(OutputStage, handed[OutputStage] - handed'[OutputStage], b, end, ab)

\* C32: whatever the aborting flag of the input, waitWork() of the output
\* returns aborted = false, and a call of passPackets by the output sets
\* the aborting flag of the output, or returns false without input_end,
\* only when it is called with aborted = true.
C32_OutputNotAbortedByInput ==
    /\ [](phase = "run" /\ pc[OutputStage] = "got" => ~loc[OutputStage].aborted)
    /\ [][PassCall(OutputStage) =>
             /\ (~tsp_aborting[OutputStage] /\ tsp_aborting'[OutputStage]) => OutputPass(TRUE)
             /\ ~OutputPass(TRUE) =>
                   /\ tsp_aborting'[OutputStage] = tsp_aborting[OutputStage]
                   /\ pc'[OutputStage] = "done" =>
                         \E b \in bitrates :
                            PassStep(OutputStage, handed[OutputStage] - handed'[OutputStage],
                                     b, TRUE, FALSE)]_vars

\* The input is aborting and the output is not; waitWork() of the output
\* returned on the flag of the input alone, with an empty window and
\* aborted = false.
C32_Witness ==
    /\ tsp_aborting[InputStage]
    /\ ~tsp_aborting[OutputStage]
    /\ pc[OutputStage] = "got"
    /\ pkt_cnt[OutputStage] = 0 /\ ~input_end[OutputStage]
    /\ ~loc[OutputStage].timeout
    /\ ~loc[OutputStage].aborted

\* ------------------------------------------------------------------------
\* Report of the outcome of a restart
\* ------------------------------------------------------------------------

\* The step is processPendingRestart() of stage s for a request with new
\* arguments, where the start with the new arguments failed and the start
\* with the previous arguments had the outcome ok_prev.
FallbackStep(s, ok_prev) ==
    /\ ProcessCall(s)
    /\ ~requests[restart_data[s]].same_args
    /\ plugin'[s].calls = << [args |-> requests[restart_data[s]].args, ok |-> FALSE],
                             [args |-> plugin[s].args, ok |-> ok_prev] >>

\* The messages which processPendingRestart() sends to the report of a
\* request when no fatal error is reported.
NotFatal == {"verbose: restarting plugin", RestartWarning}

\* C33: when the restart of a stage with new arguments fails, the stage
\* restarts its plugin with the previous arguments and sends to the report
\* of the request a warning when this second start succeeds and a fatal
\* error when it fails as well.
C33_FallbackReporting ==
    [][\A s \in Stages :
         LET r == restart_data[s]
         IN /\ FallbackStep(s, TRUE) =>
                  /\ RestartWarning \in requests'[r].report
                  /\ requests'[r].report \ requests[r].report \subseteq NotFatal
            /\ FallbackStep(s, FALSE) =>
                  (requests'[r].report \ requests[r].report) \ NotFatal # {}]_vars

\* ------------------------------------------------------------------------
\* Order of the calls of the plugin during a restart
\* ------------------------------------------------------------------------

\* The operations of the calls of the trace t, in order.
TraceOps(t) == [i \in 1 .. Len(t) |-> t[i].op]

\* C34: processPendingRestart() with a pending request calls stop() first
\* and once; with same_args it then calls start() only and the arguments of
\* the plugin do not change; with new arguments it calls analyze(),
\* getOptions() and start() in that order, each after the success of the one
\* before, analyze() first; with no pending request no call of the plugin is
\* made.
C34_RestartOrdering ==
    [][\A s \in Stages :
         /\ ProcessCall(s) =>
              LET t == plugin'[s].trace
                  rd == requests[restart_data[s]]
              IN /\ Len(t) >= 2
                 /\ t[1].op = "stop"
                 /\ \A i \in 2 .. Len(t) : t[i].op # "stop"
                 /\ rd.same_args =>
                       /\ TraceOps(t) = << "stop", "start" >>
                       /\ plugin'[s].args = plugin[s].args
                 /\ ~rd.same_args =>
                       /\ t[2].op = "analyze"
                       /\ \A i \in 2 .. Len(t) :
                             /\ t[i].op = "getOptions" => t[i - 1].op = "analyze" /\ t[i - 1].ok
                             /\ t[i].op = "start" => t[i - 1].op = "getOptions" /\ t[i - 1].ok
                             /\ t[i].op = "analyze" /\ t[i].ok =>
                                   i < Len(t) /\ t[i + 1].op = "getOptions"
                             /\ t[i].op = "getOptions" /\ t[i].ok =>
                                   i < Len(t) /\ t[i + 1].op = "start"
         /\ ~(restart[s] /\ restart_data[s] # 0) => plugin'[s] = plugin[s]]_vars

\* A restart with new arguments has stopped at the failure of analyze(),
\* then the restart with the previous arguments at the failure of
\* getOptions().
C34_Witness ==
    \E s \in Stages :
       /\ TraceOps(plugin[s].trace) = << "stop", "analyze", "analyze", "getOptions" >>
       /\ ~plugin[s].trace[2].ok
       /\ ~plugin[s].trace[4].ok
       /\ ~plugin[s].success

\* ------------------------------------------------------------------------
\* Redirection of the report of the plugin during a restart
\* ------------------------------------------------------------------------

RestartStep ==
    \/ requests' # requests
    \/ restart' # restart
    \/ restart_data' # restart_data
    \/ plugin' # plugin

\* C36: no step of restart() or of processPendingRestart(), whether the
\* plugin restarts, restarts with its previous arguments or fails, or the
\* request is cancelled by another one, changes the window, the bitrate,
\* the input_end flag or the abort flag of any stage.
C36_RestartFrame ==
    [][RestartStep =>
          UNCHANGED <<pkt_first, pkt_cnt, bitrate, input_end, tsp_aborting>>]_vars

\* A restart with new arguments has failed, as well as the restart with
\* the previous arguments, in a stage which has packets to process and
\* which is not aborting.
C36_Witness ==
    \E s \in Stages :
       /\ Len(plugin[s].calls) = 2
       /\ ~plugin[s].success
       /\ pkt_cnt[s] > 0
       /\ ~tsp_aborting[s]

\* ------------------------------------------------------------------------
\* Slots written by the input executor
\* ------------------------------------------------------------------------

\* The sets of buffer indexes which the iteration of main() about to run
\* can write, one per outcome of the reception.
IterationWrites ==
    { { loc[InputStage].pkt_first + k : k \in r.wr }
      : r \in MainReceive(inp, loc[InputStage].pkt_cnt) }

\* The input thread holds a result of waitWork() which lets it produce.
InputProduces ==
    /\ phase = "run"
    /\ pc[InputStage] = "got"
    /\ ~loc[InputStage].aborted
    /\ ~loc[InputStage].timeout

\* C37: every slot which an iteration of main() writes (null packets,
\* metadata resets, range given to receive(), returned or not) is in the
\* range (pkt_first, pkt_cnt) returned by the preceding waitWork(), inside
\* the buffer, in the window of the input and in the window of no other
\* stage; every slot which initAllBuffers() writes is in the first half of
\* the buffer.
C37_InputWritesOwned ==
    /\ InputProduces =>
          \A W \in IterationWrites : \A i \in W :
             /\ i >= loc[InputStage].pkt_first
             /\ i < loc[InputStage].pkt_first + loc[InputStage].pkt_cnt
             /\ i < BufCount
             /\ i \in Slots(InputStage)
             /\ \A s \in Stages : s # InputStage => i \notin Slots(s)
    /\ phase = "init" =>
          \A r \in ReceiveAndStuff(inp, InitLoad) : r.wr \subseteq 0 .. (InitLoad - 1)

\* The input thread is about to produce in a window which does not start
\* the buffer, smaller than the window of the stage, and the reception can
\* write slots and return 0: the plugin is completed and the slots are
\* written again by the trailing stuffing, or are not passed.
C37_Witness ==
    /\ InputProduces
    /\ loc[InputStage].pkt_first > 0
    /\ loc[InputStage].pkt_cnt < pkt_cnt[InputStage]
    /\ \E r \in ReceiveAndStuff(inp, loc[InputStage].pkt_cnt) : r.ret = 0 /\ r.wr # {}

\* ------------------------------------------------------------------------
\* Range returned by waitWork()
\* ------------------------------------------------------------------------

\* The window of stage s goes across the end of the buffer.
Wraps(s) == pkt_first[s] + pkt_cnt[s] > BufCount

\* C38: the range (pkt_first, pkt_cnt) which waitWork() returns to a stage
\* starts at the start of its window, inside the buffer, is not longer than
\* its window and does not go across the end of the buffer; without timeout,
\* it is the part of the window up to the end of the buffer, and when the
\* thread passes the whole returned range of a window which wraps, the rest
\* of the window starts the buffer, so that the next waitWork() returns it.
C38_ContiguousRange ==
    /\ [][\A s \in Stages :
            WaitReturn(s) =>
               /\ loc'[s].pkt_first = pkt_first[s]
               /\ loc'[s].pkt_first < BufCount
               /\ loc'[s].pkt_cnt <= pkt_cnt[s]
               /\ loc'[s].pkt_first + loc'[s].pkt_cnt <= BufCount
               /\ ~loc'[s].timeout =>
                     \/ loc'[s].pkt_cnt = pkt_cnt[s]
                     \/ Wraps(s) /\ loc'[s].pkt_first + loc'[s].pkt_cnt = BufCount]_vars
    /\ [][\A s \in Stages :
            (/\ PassCall(s)
             /\ Wraps(s)
             /\ loc[s].pkt_first + loc[s].pkt_cnt = BufCount
             /\ handed[s] - handed'[s] = loc[s].pkt_cnt) =>
               /\ pkt_first'[s] = 0
               /\ pkt_cnt'[s] = pkt_cnt[s] - loc[s].pkt_cnt
               /\ pkt_cnt'[s] > 0
               /\ WaitCount(s, FALSE)' = pkt_cnt'[s]]_vars

\* The processor of a ring of 3 stages holds the range returned by
\* waitWork() for a window which wraps: the part up to the end of the buffer.
C38_Witness ==
    /\ nstages = 3
    /\ pc[2] = "got"
    /\ Wraps(2)
    /\ loc[2].pkt_first = pkt_first[2]
    /\ loc[2].pkt_first + loc[2].pkt_cnt = BufCount
    /\ loc[2].pkt_cnt < pkt_cnt[2]

\* C39: waitWork() returns input_end = true only when the flag of the stage
\* is set and the returned range is its whole window; when the returned
\* range is shorter than the window (cut at the end of the buffer, or empty
\* on a timeout) it returns input_end = false.
C39_InputEndWithWholeWindow ==
    [][\A s \in Stages :
          WaitReturn(s) =>
             /\ loc'[s].input_end => input_end[s] /\ loc'[s].pkt_cnt = pkt_cnt[s]
             /\ loc'[s].pkt_cnt < pkt_cnt[s] => ~loc'[s].input_end
             /\ (input_end[s] /\ loc'[s].pkt_cnt = pkt_cnt[s]) => loc'[s].input_end]_vars

\* The end of input of a stage is flagged while its window wraps: waitWork()
\* returned the part up to the end of the buffer without input_end.
C39_Witness ==
    \E s \in Stages :
       /\ pc[s] = "got"
       /\ input_end[s]
       /\ Wraps(s)
       /\ ~loc[s].timeout
       /\ loc[s].pkt_cnt < pkt_cnt[s]
       /\ loc[s].pkt_first + loc[s].pkt_cnt = BufCount
       /\ ~loc[s].input_end

\* ------------------------------------------------------------------------
\* End of the input thread
\* ------------------------------------------------------------------------

\* The input never calls receive() of its plugin after a call which
\* returned no packet.
NoReceiveAfterEnd == ~inp.receive_after_end

\* A passPackets() of the input with input_end = true is its last call: the
\* thread leaves its loop, where it stops its plugin.
InputEndIsLast == InputEndPassed => pc'[InputStage] = "done"

\* C40: on every path out of its loop (end of input, abort, timeout) the
\* input thread passes input_end = true at most once, in its last
\* passPackets, stops its plugin once and for all, and never calls receive()
\* of the plugin after the plugin reported the end of its input.
C40_InputTermination ==
    /\ []NoReceiveAfterEnd
    /\ [][InputEndIsLast /\ InputStopped]_vars

\* The part of C40 on passPackets and stop() alone.
C40_LastPassAndStop == [][InputEndIsLast /\ InputStopped]_vars

====
